---- MODULE Spec2Model ----
(***************************************************************************)
(* Model of the BugHerd import/export server (src/server.js).              *)
(*                                                                         *)
(* POST /api/export is modelled as a state machine whose steps are the     *)
(* stretches of the handler between two awaits: request validation up to   *)
(* the first page request, the arrival of each page response, the arrival  *)
(* of each single-issue detail response, and the rendering that follows    *)
(* Promise.all.  POST /api/upload and the priority label of an exported    *)
(* row have their own variables and their own specifications (SpecUpload,  *)
(* SpecLabel).                                                             *)
(*                                                                         *)
(* JavaScript strings are sequences of one-character strings, so that      *)
(* toLowerCase, trim, includes and startsWith are computed, not assumed.   *)
(* A JavaScript object is a record; an absent key is a key outside its     *)
(* DOMAIN.                                                                 *)
(***************************************************************************)
EXTENDS Integers, Sequences, FiniteSets, TLC

VARIABLES
    pc,             \* position of the export handler
    req,            \* the request being served
    page,           \* server.js:505
    tasks,          \* server.js:503, the accumulated issue list
    pages,          \* history: the page responses received, in order
    apiCalls,       \* history: the requests issued to the tracker, in order
    filteredTasks,  \* server.js:559
    uniqueTasks,    \* server.js:611
    promises,       \* server.js:623, the array handed to Promise.all
    detailResponses,\* history: what the tracker answered each detail fetch
    detailedTasks,  \* server.js:623, the array Promise.all resolves to
    csvData,        \* server.js:695
    res,            \* the response sent
    upc,            \* position of the upload handler
    upReq,          \* the upload request: req.file and req.body
    fileOnDisk,     \* whether the file multer stored at req.file.path exists
    bugs,           \* server.js:218, the parsed rows
    bugIndex,       \* position of the loop of server.js:232 (1-based)
    priority,       \* server.js:236, of the row being processed
    response,       \* server.js:293, response.data of the row's create call
    results,        \* server.js:231
    trackerCalls,   \* history: the create and update calls issued, in order
    upRes,          \* the response the upload handler sent
    exportedTask,   \* an issue handed to the export's row mapping
    exportedPriority,\* server.js:710, the priority label of its row
    csvValue,       \* a string handed to escapeCsv
    csvCell,        \* server.js:1013, what escapeCsv returns for it
    cmpTask,        \* an issue handed to both filters
    cmpFilters,     \* the Filter Selection
    cmpOutcome,     \* what the export and the report do with the issue
    rpc,            \* position of the report request
    reportReq,      \* req.body of the report request
    processAlive,   \* whether the server process runs
    currentPage,    \* generator.js:153
    allTasks,       \* generator.js:151, later tasks of generateReport
    reportLog,      \* history: how the awaited steps of the report settled
    reportRes,      \* the response sent to the report request
    otherRequest,   \* another request in flight: pending or answered
    bpc,            \* position of fetchDetailedTasks
    batchTasks,     \* generator.js:463, the list handed to fetchDetailedTasks
    batchStart,     \* generator.js:470, position of the first issue of the batch (1-based)
    batchPromises,  \* generator.js:472, over all batches: the detail fetch of each issue
    batchDetailed,  \* generator.js:466, detailedTasks
    pgc,            \* position of the pagination loop
    pgLoop,         \* which of the three loops runs
    pgProject,      \* the number of issues of the project
    pgPage,         \* page (server.js:505), currentPage (generator.js:153, brand-generator.js:96)
    pgRequests,     \* history: the number of page requests issued
    pgLengths,      \* history: the number of issues on each page returned
    envTask,        \* an issue handed to the mapping of the environment columns
    envRow,         \* server.js:807-833: os, browser, browserSize, resolution of its row
    urlTask,        \* an issue handed to the mapping of the Site URL column
    siteUrl         \* server.js:727, siteUrl of its row

exportVars == <<pc, req, page, tasks, pages, apiCalls, filteredTasks, uniqueTasks,
                promises, detailResponses, detailedTasks, csvData, res>>
uploadVars == <<upc, upReq, fileOnDisk, bugs, bugIndex, priority, response,
                results, trackerCalls, upRes>>
labelVars == <<exportedTask, exportedPriority>>
csvVars == <<csvValue, csvCell>>
filterVars == <<cmpTask, cmpFilters, cmpOutcome>>
reportVars == <<rpc, reportReq, processAlive, currentPage, allTasks, reportLog, reportRes, otherRequest>>
batchVars == <<bpc, batchTasks, batchStart, batchPromises, batchDetailed>>
pagingVars == <<pgc, pgLoop, pgProject, pgPage, pgRequests, pgLengths>>
envVars == <<envTask, envRow>>
urlVars == <<urlTask, siteUrl>>

\* what the handlers of one route leave alone
notExport == <<uploadVars, labelVars, csvVars, filterVars, reportVars, batchVars,
               pagingVars, envVars, urlVars>>
notUpload == <<exportVars, labelVars, csvVars, filterVars, reportVars, batchVars,
               pagingVars, envVars, urlVars>>
notLabel == <<exportVars, uploadVars, csvVars, filterVars, reportVars, batchVars,
              pagingVars, envVars, urlVars>>
notCsv == <<exportVars, uploadVars, labelVars, filterVars, reportVars, batchVars,
            pagingVars, envVars, urlVars>>
notFilter == <<exportVars, uploadVars, labelVars, csvVars, reportVars, batchVars,
               pagingVars, envVars, urlVars>>
notReport == <<exportVars, uploadVars, labelVars, csvVars, filterVars, batchVars,
               pagingVars, envVars, urlVars>>
notBatch == <<exportVars, uploadVars, labelVars, csvVars, filterVars, reportVars,
              pagingVars, envVars, urlVars>>
notPaging == <<exportVars, uploadVars, labelVars, csvVars, filterVars, reportVars,
               batchVars, envVars, urlVars>>
notEnv == <<exportVars, uploadVars, labelVars, csvVars, filterVars, reportVars,
            batchVars, pagingVars, urlVars>>
notUrl == <<exportVars, uploadVars, labelVars, csvVars, filterVars, reportVars,
            batchVars, pagingVars, envVars>>

vars == <<exportVars, uploadVars, labelVars, csvVars, filterVars, reportVars,
          batchVars, pagingVars, envVars, urlVars>>

(***************************************************************************)
(* Bounds of the model.                                                    *)
(***************************************************************************)
\* the tracker serves at most this many full pages of a project
MaxPages == 1
\* at most this many individually modelled issues in one fetch
MaxIssues == 3

(***************************************************************************)
(* Strings                                                                 *)
(***************************************************************************)
UpperChars == <<"A","B","C","D","E","F","G","H","I","J","K","L","M",
                "N","O","P","Q","R","S","T","U","V","W","X","Y","Z">>
LowerChars == <<"a","b","c","d","e","f","g","h","i","j","k","l","m",
                "n","o","p","q","r","s","t","u","v","w","x","y","z">>

UpperSet == { UpperChars[i] : i \in 1..Len(UpperChars) }
LowerTable == [c \in UpperSet |->
                  LowerChars[CHOOSE i \in 1..Len(UpperChars) : UpperChars[i] = c]]

LowerOfChar(c) == IF c \in UpperSet THEN LowerTable[c] ELSE c

\* String.prototype.toLowerCase
toLowerCase(s) == [i \in 1..Len(s) |-> LowerOfChar(s[i])]

IsSpace(c) == c \in {" ", "\t", "\n"}

\* String.prototype.trim
trim(s) ==
    IF \A i \in 1..Len(s) : IsSpace(s[i])
    THEN <<>>
    ELSE LET first == CHOOSE i \in 1..Len(s) :
                          /\ ~IsSpace(s[i])
                          /\ \A j \in 1..(i-1) : IsSpace(s[j])
             last  == CHOOSE i \in 1..Len(s) :
                          /\ ~IsSpace(s[i])
                          /\ \A j \in (i+1)..Len(s) : IsSpace(s[j])
         IN  SubSeq(s, first, last)

\* String.prototype.includes
includes(s, sub) ==
    \E i \in 0..(Len(s) - Len(sub)) : SubSeq(s, i + 1, i + Len(sub)) = sub

\* String.prototype.startsWith
startsWith(s, prefix) ==
    /\ Len(s) >= Len(prefix)
    /\ SubSeq(s, 1, Len(prefix)) = prefix

\* the object o has the key k (with a value other than null and undefined)
Has(o, k) == k \in DOMAIN o

(***************************************************************************)
(* String literals of the source                                           *)
(***************************************************************************)
s_feedback == <<"f","e","e","d","b","a","c","k">>
s_archive == <<"a","r","c","h","i","v","e">>
s_closed == <<"c","l","o","s","e","d">>
s_suggestion == <<"s","u","g","g","e","s","t","i","o","n">>
s_qa_team == <<"q","a"," ","t","e","a","m">>
s_Suggestion == <<"S","u","g","g","e","s","t","i","o","n">>
s_Bug == <<"B","u","g">>
s_New == <<"N","e","w">>
s_image_slash == <<"i","m","a","g","e","/">>
s_empty == <<>>

\* server.js:576-579
taskBoardStatuses ==
    << <<"b","a","c","k","l","o","g">>,
       <<"q","a"," ","t","e","a","m">>,
       <<"i","n"," ","p","r","o","g","r","e","s","s">>,
       <<"d","o","n","e">>,
       <<"i","n","-","p","r","o","g","r","e","s","s">>,
       <<"s","u","g","g","e","s","t","i","o","n">>,
       <<"B","a","c","k","l","o","g">>,
       <<"Q","A"," ","T","e","a","m">>,
       <<"I","n"," ","P","r","o","g","r","e","s","s">>,
       <<"D","o","n","e">>,
       <<"I","n","-","P","r","o","g","r","e","s","s">>,
       <<"S","u","g","g","e","s","t","i","o","n">> >>

\* server.js:504
perPage == 100

(***************************************************************************)
(* The tracker's data.  A list-stage issue is a record with an id and,     *)
(* optionally, status, status_id and attachments (the list request asks    *)
(* for include=attachments).  Identifiers are unique within a project.     *)
(***************************************************************************)
st_Feedback == <<"F","e","e","d","b","a","c","k">>
st_Done_padded == <<" ","D","o","n","e"," ">>
st_Closed == <<"C","l","o","s","e","d">>
st_Backlog == <<"B","a","c","k","l","o","g">>
ct_image_png == <<"i","m","a","g","e","/","p","n","g">>
url_shot == <<"h","t","t","p",":","/","/","s">>

\* an attachment the tracker describes properly
GoodAttachment == [content_type |-> [type |-> "string", chars |-> ct_image_png],
                   url |-> url_shot]
\* an attachment whose content_type is a number instead of a string
BadAttachment == [content_type |-> [type |-> "number"], url |-> url_shot]

TaskPool ==
    { [id |-> 1, status |-> st_Feedback, status_id |-> 5],
      [id |-> 2, status |-> st_Done_padded, status_id |-> 5],
      [id |-> 3, status |-> st_Closed, attachments |-> <<GoodAttachment>>],
      [id |-> 4, status |-> st_Backlog] }

\* the single-issue representations the tracker may answer for an issue: one
\* with a changed status and a screenshot, and, for an issue that has
\* attachments, one whose attachment is malformed
DetailPool(task) ==
    { [id |-> task.id, status |-> s_Suggestion, screenshot_url |-> url_shot] } \cup
    (IF Has(task, "attachments")
     THEN { [id |-> task.id, attachments |-> <<BadAttachment>>] }
     ELSE {})

\* sequences over S of length at most n
RECURSIVE SeqsUpTo(_, _)
SeqsUpTo(S, n) ==
    IF n = 0 THEN { <<>> }
    ELSE LET shorter == SeqsUpTo(S, n - 1)
         IN  shorter \cup
             { Append(q, x) : q \in { r \in shorter : Len(r) = n - 1 }, x \in S }

NoRepeat(q) == \A i, j \in 1..Len(q) : i # j => q[i].id # q[j].id

(***************************************************************************)
(* Filter stage, server.js:558-605                                         *)
(***************************************************************************)
\* String(task.status || '')
StatusOrEmpty(task) == IF Has(task, "status") THEN task.status ELSE s_empty

\* parseInt(task.status_id || '0'); status_id is an integer or absent
statusId(task) == IF Has(task, "status_id") THEN task.status_id ELSE 0

\* server.js:563-566
isFeedback(task) == toLowerCase(StatusOrEmpty(task)) = s_feedback

\* server.js:573-581
isTaskBoard(task) ==
    IF ~Has(task, "status") \/ task.status = s_empty
    THEN FALSE
    ELSE LET status == toLowerCase(trim(task.status))
         IN  \E k \in 1..Len(taskBoardStatuses) :
                 status = toLowerCase(taskBoardStatuses[k])

\* mutant: 'closed' is not looked for
isArchived_NoClosed(task) ==
    \/ includes(toLowerCase(StatusOrEmpty(task)), s_archive)
    \/ statusId(task) = 5

\* server.js:589-601
isArchived(task) ==
    LET status == toLowerCase(StatusOrEmpty(task))
    IN  \/ includes(status, s_archive)
        \/ includes(status, s_closed)
        \/ statusId(task) = 5

\* server.js:559-605: the three bucket results, concatenated in this order
FilterStage(ts, filters) ==
    (IF filters.feedback THEN SelectSeq(ts, isFeedback) ELSE <<>>)
    \o (IF filters.taskBoard THEN SelectSeq(ts, isTaskBoard) ELSE <<>>)
    \o (IF filters.archive THEN SelectSeq(ts, isArchived) ELSE <<>>)

(***************************************************************************)
(* Deduplicate stage, server.js:609-617                                    *)
(***************************************************************************)
\* mutant: the last index is taken
findIndex_Last(self, id) == CHOOSE i \in 1..Len(self) :
                                /\ self[i].id = id
                                /\ \A j \in (i+1)..Len(self) : self[j].id # id

\* self.findIndex(t => t.id === id)
findIndex(self, id) == CHOOSE i \in 1..Len(self) :
                           /\ self[i].id = id
                           /\ \A j \in 1..(i-1) : self[j].id # id

RECURSIVE KeepFirst(_, _)
KeepFirst(self, index) ==
    IF index > Len(self) THEN <<>>
    ELSE (IF index = findIndex(self, self[index].id) THEN <<self[index]>> ELSE <<>>)
         \o KeepFirst(self, index + 1)

Dedup(self) == KeepFirst(self, 1)

(***************************************************************************)
(* Detail-enrich stage, server.js:621-637                                  *)
(***************************************************************************)
\* mutant: the list-stage value wins on a colliding key
Merge_ListWins(task, detailedTask) ==
    [k \in (DOMAIN task) \cup (DOMAIN detailedTask) |->
        IF k \in DOMAIN task THEN task[k] ELSE detailedTask[k]]

\* { ...task, ...detailedTask }
Merge(task, detailedTask) ==
    [k \in (DOMAIN task) \cup (DOMAIN detailedTask) |->
        IF k \in DOMAIN detailedTask THEN detailedTask[k] ELSE task[k]]

\* the value Promise.all resolves to: the promises' values by array index
PromiseAllValues(ps) == [i \in 1..Len(ps) |-> ps[i].value]

\* mutant: results are collected in completion order
SettledSlot_Completion(ps, i) ==
    CHOOSE j \in 1..Len(ps) : /\ ps[j].state = "pending"
                              /\ \A m \in 1..(j-1) : ps[m].state # "pending"

\* the slot of the array that the i-th callback's return value settles
SettledSlot(ps, i) == i

AllSettled(ps) == \A i \in 1..Len(ps) : ps[i].state = "fulfilled"

(***************************************************************************)
(* Render stage: one report record per enriched issue, server.js:695-964.  *)
(* Of the record, the model keeps BugID, Bug Status, Bug Type and          *)
(* Screenshot URL, and the one place of the mapping that can throw.        *)
(***************************************************************************)
\* getValue(task.status), server.js:698-707
getValueStatus(task) == IF Has(task, "status") THEN trim(task.status) ELSE s_empty

\* server.js:945
BugType(task) ==
    LET status == getValueStatus(task)
    IN  IF status # s_empty /\ toLowerCase(status) = s_suggestion THEN s_Suggestion
        ELSE IF status # s_empty /\ toLowerCase(status) = s_qa_team THEN s_Bug
        ELSE status

ScreenshotFields == <<"screenshot_url", "screenshot", "image_url", "attachment_url">>

\* server.js:839-851: the first non-blank direct field, trimmed, else ''
DirectScreenshot(task) ==
    LET usable(k) == Has(task, ScreenshotFields[k])
                       /\ trim(task[ScreenshotFields[k]]) # s_empty
    IN  IF \E k \in 1..Len(ScreenshotFields) : usable(k)
        THEN trim(task[ScreenshotFields[CHOOSE k \in 1..Len(ScreenshotFields) :
                        usable(k) /\ \A j \in 1..(k-1) : ~usable(j)]])
        ELSE s_empty

\* att.content_type && att.content_type.startsWith('image/') && att.url
\* evaluates to "throw" when content_type is truthy and not a string
AttTest(att) ==
    IF ~Has(att, "content_type") THEN "false"
    ELSE IF att.content_type.type # "string" THEN "throw"
    ELSE IF att.content_type.chars = s_empty THEN "false"
    ELSE IF startsWith(att.content_type.chars, s_image_slash)
            /\ Has(att, "url") /\ att.url # s_empty THEN "true"
    ELSE "false"

\* task.attachments.find(...), server.js:856-860: 0 is "not found", -1 a throw
RECURSIVE FindImage(_, _)
FindImage(atts, i) ==
    IF i > Len(atts) THEN 0
    ELSE IF AttTest(atts[i]) = "throw" THEN -1
    ELSE IF AttTest(atts[i]) = "true" THEN i
    ELSE FindImage(atts, i + 1)

\* the mapping callback throws, server.js:696-963
MapThrows(task) ==
    /\ DirectScreenshot(task) = s_empty
    /\ Has(task, "attachments")
    /\ FindImage(task.attachments, 1) = -1

\* server.js:836-868 (the description is absent from every modelled issue)
Screenshot(task) ==
    IF DirectScreenshot(task) # s_empty THEN DirectScreenshot(task)
    ELSE IF ~Has(task, "attachments") THEN s_empty
    ELSE LET f == FindImage(task.attachments, 1)
         IN  IF f > 0 THEN task.attachments[f].url
             ELSE IF Len(task.attachments) > 0 /\ Has(task.attachments[1], "url")
                  THEN task.attachments[1].url
             ELSE s_empty

NullRow == [isNull |-> TRUE]

\* the callback of detailedTasks.map, server.js:695-963; index is 0-based
MapTask(task, index) ==
    IF MapThrows(task) THEN NullRow
    ELSE [BugID |-> index + 1,
          Bug_Status |-> s_New,
          Bug_Type |-> BugType(task),
          Screenshot_URL |-> Screenshot(task)]

NotNull(row) == row # NullRow

\* mutant: one try around the whole map, so one failure empties the report
CsvData_AbortAll(detailed) ==
    IF \E i \in 1..Len(detailed) : MapThrows(detailed[i]) THEN <<>>
    ELSE [i \in 1..Len(detailed) |-> MapTask(detailed[i], i - 1)]

\* server.js:695-964
CsvData(detailed) ==
    SelectSeq([i \in 1..Len(detailed) |-> MapTask(detailed[i], i - 1)], NotNull)

(***************************************************************************)
(* Requests.  projectId and filters are JavaScript values of the JSON      *)
(* body; a filter key that is absent reads as false.                       *)
(***************************************************************************)
ProjectIdValues == { [type |-> "undefined"],
                     [type |-> "string", chars |-> ""],
                     [type |-> "string", chars |-> "P1"] }

FilterValues ==
    { [type |-> "undefined"], [type |-> "string"] } \cup
    { [type |-> "object", feedback |-> f, taskBoard |-> t, archive |-> a] :
        f \in BOOLEAN, t \in BOOLEAN, a \in BOOLEAN }

Bodies == { [hasBody |-> FALSE] } \cup
          { [hasBody |-> TRUE, projectId |-> p, filters |-> f] :
              p \in ProjectIdValues, f \in FilterValues }

\* !projectId, server.js:474
ProjectIdMissing(body) ==
    body.projectId.type = "undefined" \/ body.projectId.chars = ""

\* mutant: only the type of filters is checked
FiltersInvalid_TypeOnly(body) == body.filters.type # "object"

\* server.js:485-486
FiltersInvalid(body) ==
    \/ body.filters.type # "object"
    \/ (~body.filters.feedback /\ ~body.filters.taskBoard /\ ~body.filters.archive)

\* the ways a request to the tracker fails: no response, timeout, non-2xx
FetchFailures == { [kind |-> "network", status |-> 0],
                   [kind |-> "timeout", status |-> 0],
                   [kind |-> "http", status |-> 401],
                   [kind |-> "http", status |-> 500] }

ListCall(p) == [kind |-> "list", page |-> p, per_page |-> perPage]
DetailCall(task) == [kind |-> "detail", id |-> task.id]

NoResponse == [status |-> 0, kind |-> "none", errorField |-> FALSE,
               upstream |-> 0, rows |-> <<>>]
Response(st, k, err, up, rows) ==
    [status |-> st, kind |-> k, errorField |-> err, upstream |-> up, rows |-> rows]

InitExport ==
    /\ pc = "idle"
    /\ req = [hasBody |-> FALSE]
    /\ page = 1
    /\ tasks = [items |-> <<>>, fill |-> 0]
    /\ pages = <<>>
    /\ apiCalls = <<>>
    /\ filteredTasks = <<>>
    /\ uniqueTasks = <<>>
    /\ promises = <<>>
    /\ detailResponses = <<>>
    /\ detailedTasks = <<>>
    /\ csvData = <<>>
    /\ res = NoResponse

\* server.js:462-514: validation, then the first page request
ExportRequest(body) ==
    /\ pc = "idle"
    /\ req' = body
    /\ IF ~body.hasBody \/ ProjectIdMissing(body) \/ FiltersInvalid(body)
       THEN /\ res' = Response(400, "validation", TRUE, 0, <<>>)
            /\ pc' = "done"
            /\ UNCHANGED apiCalls
       ELSE /\ apiCalls' = <<ListCall(1)>>
            /\ pc' = "pageFetch"
            /\ UNCHANGED res
    /\ UNCHANGED <<page, tasks, pages, filteredTasks, uniqueTasks, promises,
                   detailResponses, detailedTasks, csvData>>
    /\ UNCHANGED notExport

\* server.js:558-637: filter, deduplicate, and start every detail fetch
\* (uniqueTasks.map runs each callback up to its await)
StartEnrich(all) ==
    LET filtered == FilterStage(all.items, req.filters)
        unique == Dedup(filtered)
    IN  /\ filteredTasks' = filtered
        /\ uniqueTasks' = unique
        /\ promises' = [i \in 1..Len(unique) |-> [state |-> "pending"]]
        /\ detailResponses' = [i \in 1..Len(unique) |-> [kind |-> "none"]]
        /\ apiCalls' = apiCalls \o [i \in 1..Len(unique) |-> DetailCall(unique[i])]
        /\ pc' = "details"

\* mutant: a full page ends the loop too
IsLastPage_Inclusive(length) == length <= perPage

\* pageTasks.length < perPage, server.js:521
IsLastPage(length) == length < perPage

\* server.js:511-526: a page response carrying a tasks array.  fill counts the
\* page's issues whose status matches no bucket; they are not modelled
\* one by one.  The tracker honours per_page.
PageOk(items, fill) ==
    /\ pc = "pageFetch"
    /\ Len(items) + fill <= perPage
    /\ (Len(items) + fill = perPage) => page <= MaxPages
    /\ LET all == [items |-> tasks.items \o items, fill |-> tasks.fill + fill]
       IN  /\ tasks' = all
           /\ pages' = Append(pages, [kind |-> "tasks", items |-> items, fill |-> fill])
           /\ IF IsLastPage(Len(items) + fill)
              THEN /\ StartEnrich(all)
                   /\ UNCHANGED page
              ELSE /\ page' = page + 1
                   /\ apiCalls' = Append(apiCalls, ListCall(page + 1))
                   /\ UNCHANGED <<pc, filteredTasks, uniqueTasks, promises,
                                  detailResponses>>
    /\ UNCHANGED <<req, detailedTasks, csvData, res>>
    /\ UNCHANGED notExport

\* mutant: a successful response without a tasks array ends the request with
\* the error response of a failed page request
PageNoArray_Error ==
    /\ pc = "pageFetch"
    /\ pages' = Append(pages, [kind |-> "noArray"])
    /\ res' = Response(500, "fetchError", TRUE, 0, <<>>)
    /\ pc' = "done"
    /\ UNCHANGED <<req, page, tasks, apiCalls, filteredTasks, uniqueTasks, promises,
                   detailResponses, detailedTasks, csvData>>
    /\ UNCHANGED notExport

\* server.js:515-517: a successful response without a tasks array
PageNoArray ==
    /\ pc = "pageFetch"
    /\ pages' = Append(pages, [kind |-> "noArray"])
    /\ StartEnrich(tasks)
    /\ UNCHANGED <<req, page, tasks, detailedTasks, csvData, res>>
    /\ UNCHANGED notExport

\* mutant: a failed page request ends the loop like a page without a tasks
\* array, and the report is built from the pages fetched so far
PageFail_Swallow(failure) ==
    /\ pc = "pageFetch"
    /\ pages' = Append(pages, [kind |-> "error", failure |-> failure])
    /\ StartEnrich(tasks)
    /\ UNCHANGED <<req, page, tasks, detailedTasks, csvData, res>>
    /\ UNCHANGED notExport

\* server.js:529-542: the page request fails
PageFail(failure) ==
    /\ pc = "pageFetch"
    /\ pages' = Append(pages, [kind |-> "error", failure |-> failure])
    /\ res' = Response(500, "fetchError", TRUE, failure.status, <<>>)
    /\ pc' = "done"
    /\ UNCHANGED <<req, page, tasks, apiCalls, filteredTasks, uniqueTasks, promises,
                   detailResponses, detailedTasks, csvData>>
    /\ UNCHANGED notExport

\* server.js:625-631: the detail fetch of uniqueTasks[i] succeeds
DetailOk(i, detail) ==
    /\ pc = "details"
    /\ i \in 1..Len(promises)
    /\ promises[i].state = "pending"
    /\ promises' = [promises EXCEPT ![SettledSlot(promises, i)] =
                       [state |-> "fulfilled", value |-> Merge(uniqueTasks[i], detail)]]
    /\ detailResponses' = [detailResponses EXCEPT ![i] =
                              [kind |-> "ok", detail |-> detail]]
    /\ UNCHANGED <<pc, req, page, tasks, pages, apiCalls, filteredTasks, uniqueTasks,
                   detailedTasks, csvData, res>>
    /\ UNCHANGED notExport

\* server.js:632-636: the detail fetch of uniqueTasks[i] fails
DetailFail(i) ==
    /\ pc = "details"
    /\ i \in 1..Len(promises)
    /\ promises[i].state = "pending"
    /\ promises' = [promises EXCEPT ![SettledSlot(promises, i)] =
                       [state |-> "fulfilled", value |-> uniqueTasks[i]]]
    /\ detailResponses' = [detailResponses EXCEPT ![i] = [kind |-> "error"]]
    /\ UNCHANGED <<pc, req, page, tasks, pages, apiCalls, filteredTasks, uniqueTasks,
                   detailedTasks, csvData, res>>
    /\ UNCHANGED notExport

\* the columns of csvHeaders the model keeps, server.js:968-982, 1011-1020
CsvRows(data) ==
    [i \in 1..Len(data) |->
        [BugID |-> data[i].BugID, Bug_Status |-> data[i].Bug_Status,
         Bug_Type |-> data[i].Bug_Type, Screenshot_URL |-> data[i].Screenshot_URL]]

\* mutant: the empty check never fires
IsEmptyResult_Never(detailed) == Len(detailed) < 0

\* server.js:641
IsEmptyResult(detailed) == Len(detailed) = 0

\* server.js:637-1025: the continuation of Promise.all.  debug is
\* req.query.debug === '1', which the handler reads here for the first time.
Render(debug) ==
    /\ pc = "details"
    /\ AllSettled(promises)
    /\ LET detailed == PromiseAllValues(promises)
       IN  /\ detailedTasks' = detailed
           /\ IF IsEmptyResult(detailed)
              THEN /\ res' = Response(404, "noTasks", TRUE, 0, <<>>)
                   /\ UNCHANGED csvData
              ELSE IF debug
              THEN /\ res' = Response(200, "debug", FALSE, 0, <<>>)
                   /\ UNCHANGED csvData
              ELSE /\ csvData' = CsvData(detailed)
                   /\ res' = Response(200, "csv", FALSE, 0, CsvRows(CsvData(detailed)))
    /\ pc' = "done"
    /\ UNCHANGED <<req, page, tasks, pages, apiCalls, filteredTasks, uniqueTasks,
                   promises, detailResponses>>
    /\ UNCHANGED notExport

\* the fill values a page of the given items may carry: none, a full page,
\* and (for a page of fill alone) one short of a full page
Fills(items) == { 0, perPage - Len(items) } \cup
                (IF items = <<>> THEN { perPage - 1 } ELSE {})

\* the issues a page may carry: modelled issues not yet fetched, within the
\* bound on modelled issues
PageItems ==
    IF pc = "pageFetch"
    THEN { q \in SeqsUpTo(TaskPool, MaxIssues - Len(tasks.items)) :
             NoRepeat(tasks.items \o q) }
    ELSE {}

Next ==
    \/ \E body \in Bodies : ExportRequest(body)
    \/ \E items \in PageItems : \E fill \in Fills(items) : PageOk(items, fill)
    \/ PageNoArray
    \/ \E failure \in FetchFailures : PageFail(failure)
    \/ \E i \in 1..Len(promises) :
           \E detail \in DetailPool(uniqueTasks[i]) : DetailOk(i, detail)
    \/ \E i \in 1..Len(promises) : DetailFail(i)
    \/ \E debug \in BOOLEAN : Render(debug)

(***************************************************************************)
(* POST /api/upload, server.js:206-349.  The steps are multer's middleware *)
(* (which stores the file), the handler up to its first await, and the     *)
(* settlement of each awaited call: parseCSV, the create call of a row,    *)
(* and the row's priority update.  The rows of a spreadsheet are records   *)
(* with an id and, optionally, a priority: a string, or (from an Excel     *)
(* sheet only) a number.                                                   *)
(***************************************************************************)
s_critical == <<"c","r","i","t","i","c","a","l">>
s_important == <<"i","m","p","o","r","t","a","n","t">>
s_normal == <<"n","o","r","m","a","l">>
s_minor == <<"m","i","n","o","r">>
s_not_set == <<"n","o","t"," ","s","e","t">>
s_constructor == <<"c","o","n","s","t","r","u","c","t","o","r">>
s_Object == <<"O","b","j","e","c","t">>
s_QA_Team == <<"Q","A"," ","T","e","a","m">>
s_backlog == <<"b","a","c","k","l","o","g">>
s_todo == <<"t","o","d","o">>
s_dot_csv == <<".","c","s","v">>
s_dot_xlsx == <<".","x","l","s","x">>
s_dot_xls == <<".","x","l","s">>

\* at most this many rows in an uploaded spreadsheet
MaxRows == 2

\* server.js:152-158
priorityMap ==
    (s_critical :> [id |-> 1, name |-> s_critical]) @@
    (s_important :> [id |-> 2, name |-> s_important]) @@
    (s_normal :> [id |-> 3, name |-> s_normal]) @@
    (s_minor :> [id |-> 4, name |-> s_minor]) @@
    (s_not_set :> [id |-> 0, name |-> s_not_set])

\* priorityMap is an object literal, so priorityMap[key] also finds what it
\* inherits from Object.prototype.  Of the inherited keys, the model keeps
\* constructor: the function Object, whose name is 'Object' and which has no id.
ObjectPrototype == (s_constructor :> [name |-> s_Object])

\* server.js:161.  priorityName is a string here.
getBugHerdPriority(priorityName) ==
    LET key == toLowerCase(priorityName)
    IN  IF key \in DOMAIN priorityMap THEN priorityMap[key]
        ELSE IF key \in DOMAIN ObjectPrototype THEN ObjectPrototype[key]
        ELSE priorityMap[s_normal]

\* a JavaScript value is truthy: of a string or a number
Truthy(v) ==
    IF v.type = "string" THEN v.chars # s_empty ELSE v.value # 0

\* bug.priority || 'not set', server.js:235
PriorityName(bug) ==
    IF Has(bug, "priority") /\ Truthy(bug.priority)
    THEN bug.priority
    ELSE [type |-> "string", chars |-> s_not_set]

\* server.js:235-289 throws before the create call: priorityName?.toLowerCase
\* is not a function when the priority cell is a number
BugDataThrows(bug) == PriorityName(bug).type # "string"

\* the message of that TypeError
NotAFunction == "priorityName?.toLowerCase is not a function"

\* bug.status || 'backlog', server.js:262
BugStatus(bug) ==
    IF Has(bug, "status") /\ bug.status.chars # s_empty THEN bug.status.chars
    ELSE s_backlog

\* server.js:258-262, the fields of bugData the model keeps.  priority_id is
\* dropped from the JSON body when priority.id is undefined.
BugData(bug, prio) ==
    IF Has(prio, "id")
    THEN [priority |-> prio.name, priority_id |-> prio.id, status |-> BugStatus(bug)]
    ELSE [priority |-> prio.name, status |-> BugStatus(bug)]

\* server.js:293-296.  row and outcome are history: the row the call is made
\* for, and how the call settled.
CreateCall(projectId, k, bugData) ==
    [kind |-> "create", projectId |-> projectId, task |-> bugData,
     row |-> k, outcome |-> "pending"]

\* server.js:168-177
UpdateCall(projectId, taskId, prio, k) ==
    [kind |-> "update", projectId |-> projectId, taskId |-> taskId,
     task |-> [priority |-> prio.name, status |-> s_QA_Team],
     row |-> k, outcome |-> "pending"]

\* the last call issued settles
Settle(calls, outcome) ==
    [calls EXCEPT ![Len(calls)] = [@ EXCEPT !.outcome = outcome]]

\* server.js:315-320
SuccessResult(bug, data) ==
    [id |-> bug.id, status |-> "success", bugherdId |-> data.id, url |-> data.url]

\* server.js:323-327
ErrorResult(bug, message) ==
    [id |-> bug.id, status |-> "error", error |-> message]

\* mutant: the result is put in front of the list
PushResult_Front(rs, r) == <<r>> \o rs

\* results.push, server.js:315, 323
PushResult(rs, r) == Append(rs, r)

\* mutant: an update follows unless the priority is normal (3)
NeedsPriorityUpdate_NotNormal(prio) == ~Has(prio, "id") \/ prio.id # 3

\* priority && priority.id !== 0, server.js:301
NeedsPriorityUpdate(prio) == ~Has(prio, "id") \/ prio.id # 0

\* server.js:100-105
handleApiError(error) ==
    LET status == IF Has(error, "response") /\ error.response.status # 0
                  THEN error.response.status ELSE 500
        message == IF /\ Has(error, "response")
                      /\ Has(error.response, "data")
                      /\ Has(error.response.data, "message")
                   THEN error.response.data.message
                   ELSE "An error occurred while processing your request"
    IN  [status |-> status, body |-> [error |-> message]]

\* path.extname, server.js:217
extname(name) ==
    LET dots == { i \in 2..Len(name) : name[i] = "." }
    IN  IF dots = {} THEN s_empty
        ELSE SubSeq(name, CHOOSE i \in dots : \A j \in dots : j <= i, Len(name))

\* the names of the uploaded files
OriginalNames ==
    { <<"b",".","c","s","v">>, <<"b",".","C","S","V">>, <<"b",".","x","l","s","x">>,
      <<"b",".","x","l","s">>, <<"b",".","t","x","t">>, <<"b">> }

\* the upload requests: with or without a file, and req.body.projectId
UploadRequests ==
    { [body |-> [projectId |-> p]] : p \in ProjectIdValues } \cup
    { [file |-> [originalname |-> n], body |-> [projectId |-> p]] :
        n \in OriginalNames, p \in ProjectIdValues }

str(chars) == [type |-> "string", chars |-> chars]

\* the rows a spreadsheet may hold; csv-parser yields strings only
ImportRows(fileExt) ==
    { [id |-> 1],
      [id |-> 2, priority |-> str(s_critical)],
      [id |-> 3, priority |-> str(<<"I","m","p","o","r","t","a","n","t">>)],
      [id |-> 4, priority |-> str(s_normal)],
      [id |-> 5, priority |-> str(<<"M","I","N","O","R">>)],
      [id |-> 6, priority |-> str(s_not_set)],
      [id |-> 7, priority |-> str(<<"u","r","g","e","n","t">>)],
      [id |-> 8, priority |-> str(s_constructor)],
      [id |-> 10, priority |-> str(s_critical), status |-> str(s_todo)] } \cup
    (IF fileExt = s_dot_csv THEN {}
     ELSE { [id |-> 9, priority |-> [type |-> "number", value |-> 2]] })

\* the spreadsheets: sequences of rows with distinct ids
Sheets(fileExt) ==
    { q \in SeqsUpTo(ImportRows(fileExt), MaxRows) : NoRepeat(q) }

\* how reading the stored file may fail
ParseErrors == { [message |-> "parse error"] }

\* what parseExcel may do with the stored file
ParseOutcomes(fileExt) ==
    { [kind |-> "rows", rows |-> q] : q \in Sheets(fileExt) } \cup
    { [kind |-> "error", error |-> e] : e \in ParseErrors }

\* response.data of a successful create call for row k: the tracker assigns
\* an identifier and a URL
CreatedTask(k) == [id |-> 500 + k, url |-> [task |-> 500 + k]]

\* how a create call may fail
CreateFailures ==
    { [message |-> "Request failed with status code 422",
       response |-> [status |-> 422]] }

\* how a priority update may fail
UpdateFailures ==
    { [message |-> "Request failed with status code 500",
       response |-> [status |-> 500]] }

NoUploadResponse == [status |-> 0]
NoPriority == [name |-> s_empty]
NoData == [id |-> 0]

InitUpload ==
    /\ upc = "idle"
    /\ upReq = [body |-> [projectId |-> [type |-> "undefined"]]]
    /\ fileOnDisk = FALSE
    /\ bugs = <<>>
    /\ bugIndex = 1
    /\ priority = NoPriority
    /\ response = NoData
    /\ results = <<>>
    /\ trackerCalls = <<>>
    /\ upRes = NoUploadResponse

\* server.js:232-329: the rows from row k on whose mapping throws get their
\* error result at once; the loop stops at the first row that reaches an await
RECURSIVE SkipThrowing(_, _, _)
SkipThrowing(bs, k, rs) ==
    IF k <= Len(bs) /\ BugDataThrows(bs[k])
    THEN SkipThrowing(bs, k + 1, PushResult(rs, ErrorResult(bs[k], NotAFunction)))
    ELSE [index |-> k, results |-> rs]

\* server.js:232-336: the loop continues with row k, up to the create call of
\* the next row, or past the last row to the deletion of the file and the
\* response
ProcessFrom(bs, k, rs, calls) ==
    LET at == SkipThrowing(bs, k, rs)
    IN  /\ bugIndex' = at.index
        /\ results' = at.results
        /\ response' = NoData
        /\ IF at.index > Len(bs)
           THEN /\ fileOnDisk' = FALSE
                /\ upRes' = [status |-> 200,
                             body |-> [success |-> TRUE, total |-> Len(bs),
                                       results |-> at.results]]
                /\ upc' = "done"
                /\ trackerCalls' = calls
                /\ priority' = NoPriority
           ELSE LET prio == getBugHerdPriority(PriorityName(bs[at.index]).chars)
                IN  /\ priority' = prio
                    /\ trackerCalls' =
                           Append(calls, CreateCall(upReq.body.projectId.chars, at.index,
                                                    BugData(bs[at.index], prio)))
                    /\ upc' = "creating"
                    /\ UNCHANGED <<fileOnDisk, upRes>>

\* server.js:339-347: an error thrown by the parse step or the extension test
Fail(error) ==
    /\ fileOnDisk' = FALSE
    /\ upRes' = handleApiError(error)
    /\ upc' = "done"
    /\ UNCHANGED <<bugs, bugIndex, priority, response, results, trackerCalls>>

\* upload.single('file'), server.js:59-71, 206: multer stores the uploaded
\* file, if there is one, and calls the handler
MulterStore(r) ==
    /\ upc = "idle"
    /\ upReq' = r
    /\ fileOnDisk' = Has(r, "file")
    /\ upc' = "received"
    /\ UNCHANGED <<bugs, bugIndex, priority, response, results, trackerCalls, upRes>>
    /\ UNCHANGED notUpload

\* server.js:207-228: the handler up to its first await.  outcome is what
\* parseExcel does, if it is called.
UploadHandler(outcome) ==
    /\ upc = "received"
    /\ IF ~Has(upReq, "file")
       THEN /\ upRes' = [status |-> 400, body |-> [error |-> "No file uploaded"]]
            /\ upc' = "done"
            /\ UNCHANGED <<fileOnDisk, bugs, bugIndex, priority, response, results,
                           trackerCalls>>
       ELSE IF ProjectIdMissing(upReq.body)
       THEN /\ upRes' = [status |-> 400, body |-> [error |-> "Project ID is required"]]
            /\ upc' = "done"
            /\ UNCHANGED <<fileOnDisk, bugs, bugIndex, priority, response, results,
                           trackerCalls>>
       ELSE LET fileExt == toLowerCase(extname(upReq.file.originalname))
            IN  IF fileExt = s_dot_csv
                THEN /\ upc' = "parsing"
                     /\ UNCHANGED <<fileOnDisk, bugs, bugIndex, priority, response,
                                    results, trackerCalls, upRes>>
                ELSE IF fileExt \in {s_dot_xlsx, s_dot_xls}
                THEN /\ outcome \in ParseOutcomes(fileExt)
                     /\ IF outcome.kind = "rows"
                        THEN /\ bugs' = outcome.rows
                             /\ ProcessFrom(outcome.rows, 1, <<>>, <<>>)
                        ELSE Fail(outcome.error)
                ELSE Fail([message |-> "Unsupported file format"])
    /\ UNCHANGED upReq
    /\ UNCHANGED notUpload

\* server.js:189-197, 223: parseCSV resolves with the rows of the file
ParseCsvOk(rows) ==
    /\ upc = "parsing"
    /\ bugs' = rows
    /\ ProcessFrom(rows, 1, <<>>, <<>>)
    /\ UNCHANGED upReq
    /\ UNCHANGED notUpload

\* server.js:196, 339-347: parseCSV rejects
ParseCsvFail(error) ==
    /\ upc = "parsing"
    /\ Fail(error)
    /\ UNCHANGED upReq
    /\ UNCHANGED notUpload

\* server.js:293-320: the create call of the row succeeds
CreateOk(data) ==
    /\ upc = "creating"
    /\ IF NeedsPriorityUpdate(priority)
       THEN /\ trackerCalls' =
                   Append(Settle(trackerCalls, "ok"),
                          UpdateCall(upReq.body.projectId.chars, data.id, priority, bugIndex))
            /\ response' = data
            /\ upc' = "updating"
            /\ UNCHANGED <<fileOnDisk, bugIndex, priority, results, upRes>>
       ELSE ProcessFrom(bugs, bugIndex + 1,
                        PushResult(results, SuccessResult(bugs[bugIndex], data)),
                        Settle(trackerCalls, "ok"))
    /\ UNCHANGED <<upReq, bugs>>
    /\ UNCHANGED notUpload

\* mutant: a failed create call ends the request like a parse error
CreateFail_Abort(error) ==
    /\ upc = "creating"
    /\ fileOnDisk' = FALSE
    /\ upRes' = handleApiError(error)
    /\ upc' = "done"
    /\ trackerCalls' = Settle(trackerCalls, "failed")
    /\ UNCHANGED <<bugIndex, priority, response, results>>
    /\ UNCHANGED <<upReq, bugs>>
    /\ UNCHANGED notUpload

\* server.js:321-328: the create call of the row fails
CreateFail(error) ==
    /\ upc = "creating"
    /\ ProcessFrom(bugs, bugIndex + 1,
                   PushResult(results, ErrorResult(bugs[bugIndex], error.message)),
                   Settle(trackerCalls, "failed"))
    /\ UNCHANGED <<upReq, bugs>>
    /\ UNCHANGED notUpload

\* server.js:303-320: the priority update of the row succeeds
UpdateOk ==
    /\ upc = "updating"
    /\ ProcessFrom(bugs, bugIndex + 1,
                   PushResult(results, SuccessResult(bugs[bugIndex], response)),
                   Settle(trackerCalls, "ok"))
    /\ UNCHANGED <<upReq, bugs>>
    /\ UNCHANGED notUpload

\* mutant: a failed priority update makes the row an error row
UpdateFail_RowError(error) ==
    /\ upc = "updating"
    /\ ProcessFrom(bugs, bugIndex + 1,
                   PushResult(results, ErrorResult(bugs[bugIndex], error.message)),
                   Settle(trackerCalls, "failed"))
    /\ UNCHANGED <<upReq, bugs>>
    /\ UNCHANGED notUpload

\* server.js:179-183, 308-320: the priority update of the row fails; the
\* error is swallowed
UpdateFail(error) ==
    /\ upc = "updating"
    /\ ProcessFrom(bugs, bugIndex + 1,
                   PushResult(results, SuccessResult(bugs[bugIndex], response)),
                   Settle(trackerCalls, "failed"))
    /\ UNCHANGED <<upReq, bugs>>
    /\ UNCHANGED notUpload

\* the extension of the file being served, as the handler reads it
FileExt ==
    IF Has(upReq, "file") THEN toLowerCase(extname(upReq.file.originalname))
    ELSE s_empty

\* the outcomes of parseExcel worth distinguishing in the current state
XlsxOutcomes ==
    IF upc = "received" /\ FileExt \in {s_dot_xlsx, s_dot_xls}
    THEN ParseOutcomes(FileExt)
    ELSE { [kind |-> "none"] }

\* the rows parseCSV may resolve with in the current state
CsvSheets == IF upc = "parsing" THEN Sheets(s_dot_csv) ELSE {}

NextUpload ==
    \/ \E r \in UploadRequests : MulterStore(r)
    \/ \E outcome \in XlsxOutcomes : UploadHandler(outcome)
    \/ \E rows \in CsvSheets : ParseCsvOk(rows)
    \/ \E error \in ParseErrors : ParseCsvFail(error)
    \/ CreateOk(CreatedTask(bugIndex))
    \/ \E error \in CreateFailures : CreateFail(error)
    \/ UpdateOk
    \/ \E error \in UpdateFailures : UpdateFail(error)

(***************************************************************************)
(* The priority label of an exported row, server.js:709-722.  The issue    *)
(* carries, optionally, priority_id (a number or null) and priority (a     *)
(* string or null).                                                        *)
(***************************************************************************)
\* the issues' priority_id ranges over 0..MaxPriorityId
MaxPriorityId == 6

\* server.js:711-717
exportPriorityMap ==
    (1 :> s_critical) @@ (2 :> s_important) @@ (3 :> s_normal) @@
    (4 :> s_minor) @@ (0 :> s_not_set)

\* getValue(task.priority), server.js:698-703, of a string, null or undefined
getValuePriority(task) ==
    IF Has(task, "priority") /\ task.priority.type = "string"
    THEN trim(task.priority.chars)
    ELSE s_empty

\* server.js:710-722
PriorityLabel(task) ==
    IF Has(task, "priority_id")
    THEN IF task.priority_id.type = "number"
            /\ task.priority_id.value \in DOMAIN exportPriorityMap
         THEN exportPriorityMap[task.priority_id.value]
         ELSE getValuePriority(task)
    ELSE getValuePriority(task)

\* the values of task.priority_id: absent, null, or a number
PriorityIdValues ==
    { [type |-> "undefined"], [type |-> "null"] } \cup
    { [type |-> "number", value |-> n] : n \in 0..MaxPriorityId }

\* the values of task.priority: absent, null, or a string
PriorityTextValues ==
    { [type |-> "undefined"], [type |-> "null"], str(s_empty),
      str(<<" ","h","i","g","h"," ">>), str(<<"u","r","g","e","n","t">>),
      str(s_normal), str(<<"C","r","i","t","i","c","a","l">>) }

\* the issue with the given priority_id and priority
ExportedTask(pid, text) ==
    LET base == [id |-> 1]
        withId == IF pid.type = "undefined" THEN base
                  ELSE [k \in DOMAIN base \cup {"priority_id"} |->
                           IF k = "priority_id" THEN pid ELSE base[k]]
    IN  IF text.type = "undefined" THEN withId
        ELSE [k \in DOMAIN withId \cup {"priority"} |->
                 IF k = "priority" THEN text ELSE withId[k]]

ExportedTasks ==
    { ExportedTask(pid, text) : pid \in PriorityIdValues, text \in PriorityTextValues }

InitLabel ==
    /\ exportedTask = [id |-> 1]
    /\ exportedPriority = [type |-> "unset"]

\* server.js:710-722: the row mapping computes the label of the issue
MapPriority ==
    /\ exportedPriority.type = "unset"
    /\ exportedPriority' = str(PriorityLabel(exportedTask))
    /\ UNCHANGED exportedTask
    /\ UNCHANGED notLabel

NextLabel == MapPriority

(***************************************************************************)
(* escapeCsv, server.js:987-1005, applied to a string value.               *)
(***************************************************************************)
\* the strings handed to escapeCsv have at most this many characters
MaxCsvLen == 3

\* the characters of those strings
CsvChars == { "a", ",", "\"", "\n" }

\* /[,\n"]/.test(value), server.js:1001
NeedsQuoting(value) == \E i \in 1..Len(value) : value[i] \in { ",", "\n", "\"" }

\* value.replace(/"/g, '""'), server.js:1002
RECURSIVE DoubleQuotes(_)
DoubleQuotes(value) ==
    IF value = <<>> THEN <<>>
    ELSE (IF Head(value) = "\"" THEN <<"\"", "\"">> ELSE <<Head(value)>>)
         \o DoubleQuotes(Tail(value))

\* mutant: the quotes inside a wrapped value are not doubled
escapeCsv_NoDoubling(value) ==
    IF NeedsQuoting(value) THEN <<"\"">> \o value \o <<"\"">> ELSE value

\* server.js:987-1005, of a string
escapeCsv(value) ==
    IF NeedsQuoting(value) THEN <<"\"">> \o DoubleQuotes(value) \o <<"\"">> ELSE value

\* the string values escapeCsv may be given
CsvValues == SeqsUpTo(CsvChars, MaxCsvLen)

InitCsv ==
    /\ csvValue = <<>>
    /\ csvCell = [type |-> "unset"]

\* server.js:1013: a cell of a row is escaped
EscapeCell ==
    /\ csvCell.type = "unset"
    /\ csvCell' = [type |-> "string", chars |-> escapeCsv(csvValue)]
    /\ UNCHANGED csvValue
    /\ UNCHANGED notCsv

NextCsv == EscapeCell

(***************************************************************************)
(* ReportGenerator.filterTasks, generator.js:260-332, beside the filter    *)
(* stage of the export.  A Filter Selection gives each of feedback,        *)
(* taskBoard and archive the value true or false, or leaves it out.        *)
(***************************************************************************)
s_resolved == <<"r","e","s","o","l","v","e","d">>
s_archived == <<"a","r","c","h","i","v","e","d">>

\* the values of one key of the filters object
FilterFlags ==
    { [type |-> "undefined"], [type |-> "boolean", value |-> TRUE],
      [type |-> "boolean", value |-> FALSE] }

\* the filters objects a request may carry
FilterSelections ==
    [feedback : FilterFlags, taskBoard : FilterFlags, archive : FilterFlags]

\* the flag is set: filters.archive && ..., generator.js:289
Enabled(flag) == flag.type = "boolean" /\ flag.value

\* Object.values(filters).filter(v => v !== undefined).length, generator.js:271
activeFilters(filters) ==
    Cardinality({ k \in {"feedback", "taskBoard", "archive"} :
                    filters[k].type # "undefined" })

\* generator.js:285-287
reportIsArchived(task) ==
    toLowerCase(StatusOrEmpty(task)) \in { s_closed, s_resolved, s_archived }

\* !!task.column_id, generator.js:297
hasColumn(task) == Has(task, "column_id") /\ task.column_id # 0

\* generator.js:307-312
reportIsFeedback(task) ==
    \/ Has(task, "type") /\ task.type = s_feedback
    \/ /\ Has(task, "tags")
       /\ \E i \in 1..Len(task.tags) : includes(toLowerCase(task.tags[i]), s_feedback)

\* matchesAnyFilter, generator.js:279-322
shouldInclude(task, filters) ==
    \/ activeFilters(filters) = 0
    \/ Enabled(filters.archive) /\ reportIsArchived(task)
    \/ Enabled(filters.taskBoard) /\ hasColumn(task)
    \/ Enabled(filters.feedback) /\ reportIsFeedback(task)

\* generator.js:260-332
filterTasks(ts, filters) ==
    LET keep(task) == shouldInclude(task, filters)
    IN  SelectSeq(ts, keep)

\* generator.js:32-35: the filter is applied when the filters object has a key
ApplyFilters(ts, filters) ==
    IF activeFilters(filters) > 0 THEN filterTasks(ts, filters) ELSE ts

\* the filters object as the export reads it: req.body.filters, server.js:469
ExportFilters(filters) ==
    [type |-> "object",
     feedback |-> Enabled(filters.feedback),
     taskBoard |-> Enabled(filters.taskBoard),
     archive |-> Enabled(filters.archive)]

\* the issues both filters are given: those of the export model, and issues
\* with a board column, a type or tags
ComparedTasks ==
    TaskPool \cup
    { [id |-> 5, status |-> st_Backlog, column_id |-> 7],
      [id |-> 6, status |-> <<"R","e","s","o","l","v","e","d">>],
      [id |-> 7, status |-> st_Backlog, type |-> s_feedback],
      [id |-> 8, tags |-> << <<"U","X"," ","F","e","e","d","b","a","c","k">> >>] }

\* what POST /api/export does with the issue under the selection,
\* server.js:474-605
ExportOutcome(task, filters) ==
    IF FiltersInvalid([filters |-> ExportFilters(filters)]) THEN "rejected"
    ELSE IF FilterStage(<<task>>, ExportFilters(filters)) # <<>> THEN "kept"
    ELSE "dropped"

\* what POST /api/generate-html-report does with the issue under the
\* selection, server.js:395-410 and generator.js:32-35: nothing is rejected
ReportOutcome(task, filters) ==
    IF ApplyFilters(<<task>>, filters) # <<>> THEN "kept" ELSE "dropped"

InitFilter ==
    /\ cmpTask = [id |-> 1]
    /\ cmpFilters = [feedback |-> [type |-> "undefined"],
                     taskBoard |-> [type |-> "undefined"],
                     archive |-> [type |-> "undefined"]]
    /\ cmpOutcome = [type |-> "unset"]

\* both filters are run on the issue
CompareFilters ==
    /\ cmpOutcome.type = "unset"
    /\ cmpOutcome' = [type |-> "done",
                      export |-> ExportOutcome(cmpTask, cmpFilters),
                      report |-> ReportOutcome(cmpTask, cmpFilters)]
    /\ UNCHANGED <<cmpTask, cmpFilters>>
    /\ UNCHANGED notFilter

NextFilter == CompareFilters

(***************************************************************************)
(* POST /api/generate-html-report, server.js:393-454, with                 *)
(* ReportGenerator.generateReport and fetchTasks, generator.js:20-252.     *)
(* The steps are the stretches between the awaits on the project fetch,    *)
(* the project verification, each page fetch and the chart rendering.  The *)
(* detail fetches of a page (generator.js:184-189) settle within the step  *)
(* of their page: none of them can fail the request.  A second request is  *)
(* in flight beside the report request.                                    *)
(***************************************************************************)
\* the tracker serves the report at most this many full pages
MaxReportPages == 1
\* at most this many individually modelled issues in one report
MaxReportIssues == 2

\* generator.js:152
reportPerPage == 50

\* the issues the tracker may serve the report
ReportTasks == { t \in ComparedTasks : t.id \in {3, 4, 7} }

\* the Filter Selections of the report requests
ReportSelections ==
    { f \in FilterSelections :
        \/ activeFilters(f) = 0
        \/ f.feedback.type = "undefined" /\ Enabled(f.archive)
               /\ f.taskBoard.type = "boolean" /\ ~f.taskBoard.value
        \/ Enabled(f.feedback) /\ f.archive.type = "undefined"
               /\ f.taskBoard.type = "undefined" }

\* the bodies of the report requests: projectId and filters
ReportBodies ==
    { [projectId |-> p, filters |-> f] : p \in ProjectIdValues, f \in ReportSelections }

NoReportResponse == [status |-> 0, kind |-> "none"]

\* res.send(reportHtml), server.js:411-412: the document lists the issues
\* handed to renderHtml
HtmlReport(ts) == [status |-> 200, kind |-> "html", items |-> ts.items, fill |-> ts.fill]

NoTasks == [items |-> <<>>, fill |-> 0]

InitReport ==
    /\ rpc = "idle"
    /\ reportReq = [projectId |-> [type |-> "undefined"]]
    /\ processAlive = TRUE
    /\ currentPage = 1
    /\ allTasks = NoTasks
    /\ reportLog = <<>>
    /\ reportRes = NoReportResponse
    /\ otherRequest = "pending"

\* process.exit(1), generator.js:82: the server process ends; no response is
\* sent
Exit ==
    /\ processAlive' = FALSE
    /\ rpc' = "exited"
    /\ UNCHANGED <<currentPage, allTasks, reportRes>>

\* generator.js:31-44: fetchTasks has returned ts; the filter is applied and
\* the charts are started.  The issues counted by fill match no bucket.
StartCharts(ts) ==
    /\ allTasks' = [items |-> ApplyFilters(ts.items, reportReq.filters),
                    fill |-> IF activeFilters(reportReq.filters) = 0 THEN ts.fill ELSE 0]
    /\ rpc' = "charts"
    /\ UNCHANGED <<processAlive, reportRes>>

\* server.js:393-409, generator.js:20-24: validation, then the project fetch
ReportRequest(body) ==
    /\ rpc = "idle"
    /\ reportReq' = body
    /\ IF ProjectIdMissing(body)
       THEN /\ reportRes' = [status |-> 400, kind |-> "validation"]
            /\ rpc' = "done"
       ELSE /\ rpc' = "project"
            /\ UNCHANGED reportRes
    /\ UNCHANGED <<processAlive, currentPage, allTasks, reportLog, otherRequest>>
    /\ UNCHANGED notReport

\* generator.js:24-30, 103, 120-135: the project fetch answers; without a
\* project object in the answer generateReport throws into its own catch
ProjectOk(hasProject) ==
    /\ rpc = "project"
    /\ IF hasProject
       THEN /\ rpc' = "verify"
            /\ reportLog' = Append(reportLog, "project ok")
            /\ UNCHANGED <<processAlive, currentPage, allTasks, reportRes>>
       ELSE /\ reportLog' = Append(reportLog, "project missing")
            /\ Exit
    /\ UNCHANGED <<reportReq, otherRequest>>
    /\ UNCHANGED notReport

\* generator.js:104-110, 53-83: the project fetch fails
ProjectFail ==
    /\ rpc = "project"
    /\ reportLog' = Append(reportLog, "project failed")
    /\ Exit
    /\ UNCHANGED <<reportReq, otherRequest>>
    /\ UNCHANGED notReport

\* generator.js:136-171: the project verification answers; the first page is
\* requested
VerifyOk ==
    /\ rpc = "verify"
    /\ rpc' = "page"
    /\ reportLog' = Append(reportLog, "verify ok")
    /\ UNCHANGED <<reportReq, processAlive, currentPage, allTasks, reportRes, otherRequest>>
    /\ UNCHANGED notReport

\* generator.js:140-147, 231-251, 31-44: the project verification fails;
\* fetchTasks returns an empty list
VerifyFail ==
    /\ rpc = "verify"
    /\ reportLog' = Append(reportLog, "verify failed")
    /\ StartCharts(NoTasks)
    /\ UNCHANGED <<reportReq, currentPage, otherRequest>>
    /\ UNCHANGED notReport

\* pageTasks.length < perPage, generator.js:192
ReportLastPage(length) == length < reportPerPage

\* generator.js:158-199, 31-44: a page is answered
ReportPageOk(items, fill) ==
    /\ rpc = "page"
    /\ Len(items) + fill <= reportPerPage
    /\ (Len(items) + fill = reportPerPage) => currentPage <= MaxReportPages
    /\ reportLog' = Append(reportLog, "page ok")
    /\ LET all == [items |-> allTasks.items \o items, fill |-> allTasks.fill + fill]
       IN  IF ReportLastPage(Len(items) + fill)
           THEN /\ StartCharts(all)
                /\ UNCHANGED currentPage
           ELSE /\ allTasks' = all
                /\ currentPage' = currentPage + 1
                /\ UNCHANGED <<rpc, processAlive, reportRes>>
    /\ UNCHANGED <<reportReq, otherRequest>>
    /\ UNCHANGED notReport

\* generator.js:231-251, 31-44: a page fetch fails; fetchTasks returns an
\* empty list, whatever pages it had fetched
ReportPageFail ==
    /\ rpc = "page"
    /\ reportLog' = Append(reportLog, "page failed")
    /\ StartCharts(NoTasks)
    /\ UNCHANGED <<reportReq, currentPage, otherRequest>>
    /\ UNCHANGED notReport

\* generator.js:44-52, 532-534, server.js:408-412: the charts are rendered;
\* renderHtml reads the template and returns the document, or throws
ChartsOk(templateReadable) ==
    /\ rpc = "charts"
    /\ IF templateReadable
       THEN /\ reportRes' = HtmlReport(allTasks)
            /\ rpc' = "done"
            /\ reportLog' = Append(reportLog, "rendered")
            /\ UNCHANGED <<processAlive, currentPage, allTasks>>
       ELSE /\ reportLog' = Append(reportLog, "template failed")
            /\ Exit
    /\ UNCHANGED <<reportReq, otherRequest>>
    /\ UNCHANGED notReport

\* generator.js:334-348, 53-83: the chart rendering fails
ChartsFail ==
    /\ rpc = "charts"
    /\ reportLog' = Append(reportLog, "charts failed")
    /\ Exit
    /\ UNCHANGED <<reportReq, otherRequest>>
    /\ UNCHANGED notReport

\* the other request in flight is answered, which takes a running process
OtherCompletes ==
    /\ otherRequest = "pending"
    /\ processAlive
    /\ otherRequest' = "answered"
    /\ UNCHANGED <<rpc, reportReq, processAlive, currentPage, allTasks, reportLog,
                   reportRes>>
    /\ UNCHANGED notReport

\* the issues a page of the report may carry
ReportPageItems ==
    IF rpc = "page"
    THEN { q \in SeqsUpTo(ReportTasks, MaxReportIssues - Len(allTasks.items)) :
             NoRepeat(allTasks.items \o q) }
    ELSE {}

\* the fill values a page of the given items may carry
ReportFills(items) == { 0, reportPerPage - Len(items) }

NextReport ==
    \/ \E body \in ReportBodies : ReportRequest(body)
    \/ \E hasProject \in BOOLEAN : ProjectOk(hasProject)
    \/ ProjectFail
    \/ VerifyOk
    \/ VerifyFail
    \/ \E items \in ReportPageItems : \E fill \in ReportFills(items) :
           ReportPageOk(items, fill)
    \/ ReportPageFail
    \/ \E templateReadable \in BOOLEAN : ChartsOk(templateReadable)
    \/ ChartsFail
    \/ OtherCompletes

(***************************************************************************)
(* ReportGenerator.fetchDetailedTasks and fetchTaskDetails,                *)
(* generator.js:463-530.  The steps are the start of a batch, the          *)
(* settlement of each detail fetch, the continuation of Promise.all, and   *)
(* the end of the delay between two batches.                               *)
(***************************************************************************)
\* fetchDetailedTasks is given at most this many issues
MaxBatchTasks == 6

\* generator.js:469
batchSize == 5

\* the list of n issues handed to fetchDetailedTasks
BatchInput(n) == [i \in 1..n |-> [id |-> i, status |-> st_Backlog]]

\* what the tracker answers a detail fetch of the issue
BatchDetail(task) == [id |-> task.id, status |-> s_Suggestion, screenshot_url |-> url_shot]

\* {}, generator.js:528
EmptyObject == [k \in {} |-> 0]

\* { ...task, ...details }, generator.js:474-477
MergeDetails(task, details) ==
    [k \in (DOMAIN task) \cup (DOMAIN details) |->
        IF k \in DOMAIN details THEN details[k] ELSE task[k]]

\* mutant: every remaining issue is in the batch
BatchSlice_All(i, n) == i..n

\* tasks.slice(i, i + batchSize), generator.js:471, as 1-based positions
BatchSlice(i, n) == i..(IF i + batchSize - 1 < n THEN i + batchSize - 1 ELSE n)

InitBatch ==
    /\ bpc = "idle"
    /\ batchTasks = <<>>
    /\ batchStart = 1
    /\ batchPromises = <<>>
    /\ batchDetailed = <<>>

\* generator.js:470-479: the batch starting at position i is started: a
\* detail fetch for each of its issues
StartBatch(i) ==
    /\ batchStart' = i
    /\ batchPromises' =
           [j \in 1..Len(batchTasks) |->
               IF j \in BatchSlice(i, Len(batchTasks))
               THEN [state |-> "pending"]
               ELSE batchPromises[j]]
    /\ bpc' = "fetching"

\* generator.js:463-479: fetchDetailedTasks is called
FetchDetailedTasks ==
    /\ bpc = "idle"
    /\ batchPromises = <<>>
    /\ IF Len(batchTasks) = 0
       THEN /\ bpc' = "done"
            /\ UNCHANGED <<batchStart, batchPromises>>
       ELSE /\ batchPromises' =
                   [j \in 1..Len(batchTasks) |->
                       IF j \in BatchSlice(1, Len(batchTasks))
                       THEN [state |-> "pending"]
                       ELSE [state |-> "idle"]]
            /\ bpc' = "fetching"
            /\ UNCHANGED batchStart
    /\ UNCHANGED <<batchTasks, batchDetailed>>
    /\ UNCHANGED notBatch

\* generator.js:506-518, 474-477: the detail fetch of issue j is answered
BatchFetchOk(j) ==
    /\ bpc = "fetching"
    /\ j \in 1..Len(batchPromises)
    /\ batchPromises[j].state = "pending"
    /\ batchPromises' =
           [batchPromises EXCEPT ![j] =
               [state |-> "fulfilled", failed |-> FALSE,
                value |-> MergeDetails(batchTasks[j], BatchDetail(batchTasks[j]))]]
    /\ UNCHANGED <<bpc, batchTasks, batchStart, batchDetailed>>
    /\ UNCHANGED notBatch

\* generator.js:519-528, 474-477: the detail fetch of issue j fails;
\* fetchTaskDetails returns an empty object, which is merged like a detail
BatchFetchFail(j) ==
    /\ bpc = "fetching"
    /\ j \in 1..Len(batchPromises)
    /\ batchPromises[j].state = "pending"
    /\ batchPromises' =
           [batchPromises EXCEPT ![j] =
               [state |-> "fulfilled", failed |-> TRUE,
                value |-> MergeDetails(batchTasks[j], EmptyObject)]]
    /\ UNCHANGED <<bpc, batchTasks, batchStart, batchDetailed>>
    /\ UNCHANGED notBatch

\* generator.js:484-490: the continuation of Promise.all for the batch
BatchSettled ==
    /\ bpc = "fetching"
    /\ LET slice == BatchSlice(batchStart, Len(batchTasks))
           last == CHOOSE j \in slice : \A k \in slice : k <= j
       IN  /\ \A j \in slice : batchPromises[j].state = "fulfilled"
           /\ batchDetailed' =
                  batchDetailed \o [k \in 1..(last - batchStart + 1) |->
                                       batchPromises[batchStart + k - 1].value]
           /\ bpc' = IF batchStart + batchSize <= Len(batchTasks) THEN "delay" ELSE "done"
    /\ UNCHANGED <<batchTasks, batchStart, batchPromises>>
    /\ UNCHANGED notBatch

\* generator.js:470, 488-490: the delay is over; the next batch is started
NextBatch ==
    /\ bpc = "delay"
    /\ StartBatch(batchStart + batchSize)
    /\ UNCHANGED <<batchTasks, batchDetailed>>
    /\ UNCHANGED notBatch

NextBatches ==
    \/ FetchDetailedTasks
    \/ \E j \in 1..Len(batchPromises) : BatchFetchOk(j)
    \/ \E j \in 1..Len(batchPromises) : BatchFetchFail(j)
    \/ BatchSettled
    \/ NextBatch

(***************************************************************************)
(* The three pagination loops side by side: the export's (server.js:       *)
(* 509-526), ReportGenerator.fetchTasks' (generator.js:156-199) and        *)
(* BrandReportGenerator.fetchTasks' (brand-generator.js:99-131), run       *)
(* against a project of a given number of issues.  The tracker honours     *)
(* page and per_page.                                                      *)
(***************************************************************************)
\* the project has at most this many issues
MaxProject == 150

\* brand-generator.js:95
brandPerPage == 50

Loops == {"export", "report", "brand"}

\* per_page of the loop's requests
PageSize(loop) ==
    CASE loop = "export" -> perPage
      [] loop = "report" -> reportPerPage
      [] loop = "brand" -> brandPerPage

\* the number of issues on page p of a project of n issues, at size issues a page
PageLength(n, p, size) ==
    LET before == (p - 1) * size
    IN  IF n <= before THEN 0
        ELSE IF n - before >= size THEN size ELSE n - before

\* mutant: the brand loop stops at a short page
BrandLastPage_Short(length) == length < brandPerPage

\* pageTasks.length === 0, brand-generator.js:124
BrandLastPage(length) == length = 0

\* whether the loop ends after a page of the given length
LoopEnds(loop, length) ==
    CASE loop = "export" -> IsLastPage(length)
      [] loop = "report" -> ReportLastPage(length)
      [] loop = "brand" -> BrandLastPage(length)

InitPaging ==
    /\ pgc = "idle"
    /\ pgLoop = "export"
    /\ pgProject = 0
    /\ pgPage = 1
    /\ pgRequests = 0
    /\ pgLengths = <<>>

\* the loop is entered: the request for page 1 is issued
PagingStart ==
    /\ pgc = "idle"
    /\ pgRequests = 0
    /\ pgRequests' = 1
    /\ pgc' = "fetching"
    /\ UNCHANGED <<pgLoop, pgProject, pgPage, pgLengths>>
    /\ UNCHANGED notPaging

\* the test that ends the loop or moves it to the next page: server.js:
\* 521-525 (the next request follows at once), generator.js:192-198 and
\* brand-generator.js:124-130 (the next request follows a delay)
PagingAdvance(length) ==
    IF LoopEnds(pgLoop, length)
    THEN /\ pgc' = "done"
         /\ UNCHANGED <<pgPage, pgRequests>>
    ELSE /\ pgPage' = pgPage + 1
         /\ IF pgLoop = "export"
            THEN /\ pgRequests' = pgRequests + 1
                 /\ pgc' = "fetching"
            ELSE /\ pgc' = "delay"
                 /\ UNCHANGED pgRequests

\* the page request is answered with the issues of the page
PagingPage ==
    /\ pgc = "fetching"
    /\ LET length == PageLength(pgProject, pgPage, PageSize(pgLoop))
       IN  /\ pgLengths' = Append(pgLengths, length)
           /\ IF pgLoop = "report" /\ length > 0
              THEN /\ pgc' = "details"
                   /\ UNCHANGED <<pgPage, pgRequests>>
              ELSE PagingAdvance(length)
    /\ UNCHANGED <<pgLoop, pgProject>>
    /\ UNCHANGED notPaging

\* generator.js:186-198: fetchDetailedTasks has returned for the page
PagingDetailed ==
    /\ pgc = "details"
    /\ PagingAdvance(pgLengths[Len(pgLengths)])
    /\ UNCHANGED <<pgLoop, pgProject, pgLengths>>
    /\ UNCHANGED notPaging

\* generator.js:197, brand-generator.js:129: the delay is over; the next
\* page is requested
PagingDelayOver ==
    /\ pgc = "delay"
    /\ pgRequests' = pgRequests + 1
    /\ pgc' = "fetching"
    /\ UNCHANGED <<pgLoop, pgProject, pgPage, pgLengths>>
    /\ UNCHANGED notPaging

\* the page request is answered without a list of issues: the export
\* leaves the loop (server.js:515-517); the generators take it for a page
\* of no issues (generator.js:176-181, brand-generator.js:117-122)
PagingNoList ==
    /\ pgc = "fetching"
    /\ pgLengths' = Append(pgLengths, 0)
    /\ pgc' = "done"
    /\ UNCHANGED <<pgLoop, pgProject, pgPage, pgRequests>>
    /\ UNCHANGED notPaging

\* the page request fails: the loop is left through the catch
\* (server.js:529-542, generator.js:231-251, brand-generator.js:135-138)
PagingFail ==
    /\ pgc = "fetching"
    /\ pgc' = "failed"
    /\ UNCHANGED <<pgLoop, pgProject, pgPage, pgRequests, pgLengths>>
    /\ UNCHANGED notPaging

NextPaging ==
    \/ PagingStart
    \/ PagingPage
    \/ PagingDetailed
    \/ PagingDelayOver
    \/ PagingNoList
    \/ PagingFail

(***************************************************************************)
(* The environment columns of an export row, server.js:679-692, 807-833.   *)
(***************************************************************************)
\* the index of the first character at or after p that is not white space,
\* Len(s) + 1 if there is none
RECURSIVE WsEnd(_, _)
WsEnd(s, p) == IF p <= Len(s) /\ IsSpace(s[p]) THEN WsEnd(s, p + 1) ELSE p

\* the index of the last character of the line of s[p]
RECURSIVE LineEnd(_, _)
LineEnd(s, p) == IF p < Len(s) /\ s[p + 1] # "\n" THEN LineEnd(s, p + 1) ELSE p

\* whether word, given in lower case, stands at s[i], in any case (the i flag)
WordAt(s, i, word) ==
    /\ i + Len(word) - 1 <= Len(s)
    /\ \A k \in 1..Len(word) : LowerOfChar(s[i + k - 1]) = word[k]

\* the index after the words from k on, matched at s[i] with \s* between
\* them; 0 if they do not match there
RECURSIVE WordsEnd(_, _, _, _)
WordsEnd(s, i, words, k) ==
    IF k > Len(words) THEN i
    ELSE LET at == IF k = 1 THEN i ELSE WsEnd(s, i)
         IN  IF WordAt(s, at, words[k])
             THEN WordsEnd(s, at + Len(words[k]), words, k + 1)
             ELSE 0

\* where the group ([^\n]+) starts when /<words>\s*:\s*/ (colon required)
\* or /<words>\s*:?\s*/ matches at s[i]; 0 if the expression does not match
\* there.  The quantifiers are greedy, so the group starts as far right as
\* a match allows.
CaptureStart(s, i, words, colonOptional) ==
    LET e == WordsEnd(s, i, words, 1)
        r1 == WsEnd(s, e)
        colon == r1 <= Len(s) /\ s[r1] = ":"
        r2 == IF colon THEN WsEnd(s, r1 + 1) ELSE r1
        from == IF colonOptional THEN e ELSE r1 + 1
        starts == { p \in from..r2 : p <= Len(s) /\ s[p] # "\n" }
    IN  IF e = 0 \/ (~colonOptional /\ ~colon) \/ starts = {} THEN 0
        ELSE CHOOSE p \in starts : \A q \in starts : q <= p

\* description.match(/<words>\s*:\s*([^\n]+)/i)[1].trim(), '' without match;
\* server.js:683-690.  The expression is tried at s[i], then at s[i + 1], ...
RECURSIVE EnvMatch(_, _, _, _)
EnvMatch(s, i, words, colonOptional) ==
    IF i > Len(s) THEN s_empty
    ELSE IF CaptureStart(s, i, words, colonOptional) # 0
    THEN trim(SubSeq(s, CaptureStart(s, i, words, colonOptional),
                     LineEnd(s, CaptureStart(s, i, words, colonOptional))))
    ELSE EnvMatch(s, i + 1, words, colonOptional)

w_os == <<"o","s">>
w_browser == <<"b","r","o","w","s","e","r">>
w_resolution == <<"r","e","s","o","l","u","t","i","o","n">>
w_window == <<"w","i","n","d","o","w">>

\* server.js:679-692; d is the description, evaluated once
extractEnvFromDescription(description) ==
    CHOOSE result \in
        { [os |-> EnvMatch(d, 1, <<w_os>>, FALSE),
           browser |-> EnvMatch(d, 1, <<w_browser>>, FALSE),
           resolution |-> EnvMatch(d, 1, <<w_resolution>>, TRUE),
           browserWindow |-> EnvMatch(d, 1, <<w_browser, w_window>>, TRUE)] :
          d \in {description} } : TRUE

\* getValue(task.a || task.b || ...), server.js:698-703, 808-811: the first
\* of the fields that is there and not empty, trimmed; '' if there is none
RECURSIVE getValueOf(_, _, _)
getValueOf(task, keys, k) ==
    IF k > Len(keys) THEN s_empty
    ELSE IF Has(task, keys[k]) /\ task[keys[k]] # s_empty THEN trim(task[keys[k]])
    ELSE getValueOf(task, keys, k + 1)

OsFields == <<"requester_os", "os", "operating_system">>
BrowserFields == <<"requester_browser", "browser">>
BrowserSizeFields == <<"requester_browser_size", "browser_size", "viewport",
                       "window_size", "browser_window_size">>
ResolutionFields == <<"requester_resolution", "resolution", "screen_resolution">>

\* server.js:724
getValueDescription(task) ==
    IF Has(task, "description") THEN trim(task.description) ELSE s_empty

\* server.js:816-833: the columns, given what the description gave
FillIn(task, env) ==
    LET os0 == getValueOf(task, OsFields, 1)
        browser0 == getValueOf(task, BrowserFields, 1)
        size0 == getValueOf(task, BrowserSizeFields, 1)
        size1 == IF env.browserWindow # s_empty THEN env.browserWindow ELSE size0
        res0 == getValueOf(task, ResolutionFields, 1)
        res1 == IF res0 # s_empty THEN res0
                ELSE IF env.resolution # s_empty THEN env.resolution ELSE size1
    IN  [os |-> IF os0 = s_empty THEN env.os ELSE os0,
         browser |-> IF browser0 = s_empty THEN env.browser ELSE browser0,
         browserSize |-> IF size1 = s_empty /\ res1 # s_empty THEN res1 ELSE size1,
         resolution |-> res1]

\* server.js:807-833: os, browser, browserSize and resolution of the row;
\* env is extractEnvFromDescription(description), evaluated once
EnvColumns(task) ==
    CHOOSE columns \in
        { FillIn(task, env) :
            env \in {extractEnvFromDescription(getValueDescription(task))} } : TRUE

\* the fields of an issue the environment columns read, in the model
EnvKeys == {"requester_os", "os", "browser", "browser_size", "resolution"}

\* the values such a field may hold: a value, and white space only
EnvFieldValues == { <<"W">>, <<" ">> }

\* the descriptions an issue may carry
EnvDescriptions ==
    { <<"O","S",":"," ","M","\n","B","r","o","w","s","e","r",":"," ","F","\n","R","e","s","o","l","u","t","i","o","n",":"," ","9","\n","B","r","o","w","s","e","r"," ","W","i","n","d","o","w",":"," ","8">>,
      <<"B","r","o","w","s","e","r"," ","W","i","n","d","o","w",":"," ","8">>,
      <<"R","e","s","o","l","u","t","i","o","n",":"," ","9">>,
      <<"o","s"," ",":"," ","m">>,
      <<"R","e","s","o","l","u","t","i","o","n"," ","9">>,
      <<"B","r","o","w","s","e","r",":","\n","O","S",":"," ","M">>,
      <<"x">> }

\* the issues handed to the row mapping: any of the fields, with or
\* without a description
EnvTasks ==
    LET direct == UNION { [D -> EnvFieldValues] : D \in SUBSET EnvKeys }
    IN  direct \cup
        { [k \in DOMAIN t \cup {"description"} |->
              IF k = "description" THEN dsc ELSE t[k]] :
            t \in direct, dsc \in EnvDescriptions }

NoEnvRow == [os |-> s_empty, browser |-> s_empty, browserSize |-> s_empty,
             resolution |-> s_empty, mapped |-> FALSE]

InitEnv ==
    /\ envTask = [id |-> 1]
    /\ envRow = NoEnvRow

\* server.js:695, 807-833: the row of the issue is mapped
MapEnv ==
    /\ ~envRow.mapped
    /\ LET cols == EnvColumns(envTask)
       IN  envRow' = [os |-> cols.os, browser |-> cols.browser,
                      browserSize |-> cols.browserSize,
                      resolution |-> cols.resolution, mapped |-> TRUE]
    /\ UNCHANGED envTask
    /\ UNCHANGED notEnv

NextEnv == MapEnv

(***************************************************************************)
(* The Site URL column of an export row, server.js:726-804.                *)
(***************************************************************************)
s_https == <<"h","t","t","p","s",":","/","/">>
s_http == <<"h","t","t","p",":","/","/">>
s_www == <<"w","w","w",".">>
s_null == <<"n","u","l","l">>
s_undefined == <<"u","n","d","e","f","i","n","e","d">>

\* [^\s\n\)\]\}'">], server.js:754
IsUrlChar(c) == ~IsSpace(c) /\ c \notin {")", "]", "}", "'", "\"", ">"}

\* whether prefix stands at s[i], in any case (the i flag)
PrefixAt(s, i, prefix) ==
    /\ i + Len(prefix) - 1 <= Len(s)
    /\ \A k \in 1..Len(prefix) : LowerOfChar(s[i + k - 1]) = prefix[k]

\* the length of what (?:https?:\/\/|www\.) matches at s[i], 0 if nothing
SchemeAt(s, i) ==
    IF PrefixAt(s, i, s_https) THEN Len(s_https)
    ELSE IF PrefixAt(s, i, s_http) THEN Len(s_http)
    ELSE IF PrefixAt(s, i, s_www) THEN Len(s_www)
    ELSE 0

\* the index of the last character of the run of URL characters at s[p]
RECURSIVE TokenEnd(_, _)
TokenEnd(s, p) == IF p < Len(s) /\ IsUrlChar(s[p + 1]) THEN TokenEnd(s, p + 1) ELSE p

\* description.match(urlRegex) from s[i] on, server.js:754-755
RECURSIVE UrlsFrom(_, _)
UrlsFrom(s, i) ==
    IF i > Len(s) THEN <<>>
    ELSE LET n == SchemeAt(s, i)
         IN  IF n > 0 /\ i + n <= Len(s) /\ IsUrlChar(s[i + n])
             THEN <<SubSeq(s, i, TokenEnd(s, i + n))>> \o UrlsFrom(s, TokenEnd(s, i + n) + 1)
             ELSE UrlsFrom(s, i + 1)

urlsInDescription(description) == UrlsFrom(description, 1)

\* the fields of possibleUrlFields the model keeps, in the order of
\* server.js:730-742
possibleUrlFields == <<"url", "site", "page_url">>

\* server.js:758: the values of the fields, then the URLs of the
\* description; a field the issue does not have gives the empty string,
\* which the loop skips like undefined (server.js:762)
allUrlSources(task) ==
    [k \in 1..Len(possibleUrlFields) |->
        IF Has(task, possibleUrlFields[k]) THEN task[possibleUrlFields[k]] ELSE s_empty]
    \o urlsInDescription(getValueDescription(task))

IsQuote(c) == c \in {"'", "\""}

\* .replace(/^['"]+|['"]+$/g, ''), server.js:769
RECURSIVE StripQuotes(_)
StripQuotes(s) ==
    IF s = <<>> THEN s
    ELSE IF IsQuote(s[1]) THEN StripQuotes(Tail(s))
    ELSE IF IsQuote(s[Len(s)]) THEN StripQuotes(SubSeq(s, 1, Len(s) - 1))
    ELSE s

IsNotSpace(c) == ~IsSpace(c)

\* .replace(/\s+/g, '').replace(/\n/g, ''), server.js:770-771
RemoveWhitespace(s) == SelectSeq(s, IsNotSpace)

EndsWith(s, suffix) ==
    /\ Len(s) >= Len(suffix)
    /\ SubSeq(s, Len(s) - Len(suffix) + 1, Len(s)) = suffix

\* .replace(/\.\.\.$/, ''), server.js:772
StripEllipsis(s) ==
    IF EndsWith(s, <<".", ".", ".">>) THEN SubSeq(s, 1, Len(s) - 3) ELSE s

\* .replace(/,$/, ''), server.js:773
StripComma(s) ==
    IF EndsWith(s, <<",">>) THEN SubSeq(s, 1, Len(s) - 1) ELSE s

\* server.js:768-773
CleanUp(s) == StripComma(StripEllipsis(RemoveWhitespace(StripQuotes(s))))

\* .replace(/^\/+/g, ''), server.js:790
RECURSIVE StripSlashes(_)
StripSlashes(s) == IF s # <<>> /\ s[1] = "/" THEN StripSlashes(Tail(s)) ELSE s

\* server.js:779-792
EnsureProtocol(s) ==
    IF startsWith(s, s_https) \/ startsWith(s, s_http) THEN s
    ELSE IF startsWith(s, <<"/", "/">>) THEN <<"h","t","t","p","s",":">> \o s
    ELSE IF startsWith(s, s_www) THEN s_https \o s
    ELSE s_https \o StripSlashes(s)

\* the characters the URL parser refuses in the host of an http(s) URL,
\* among those of the modelled strings
ForbiddenHostChars == {" ", "<", ">", "[", "]", "^", "|", "%", "\\", "@", ":"}

\* whether new URL(s) returns, server.js:795-796, for a string that starts
\* with http:// or https://: the host, which ends at the first of / ? #,
\* is not empty and has no forbidden character.  Ports and credentials are
\* not modelled: no modelled string has them.
IsValidUrl(s) ==
    LET n == IF startsWith(s, s_https) THEN Len(s_https) ELSE Len(s_http)
        ends == { i \in (n + 1)..Len(s) : s[i] \in {"/", "?", "#"} }
        last == IF ends = {} THEN Len(s)
                ELSE (CHOOSE i \in ends : \A j \in ends : i <= j) - 1
    IN  /\ startsWith(s, s_https) \/ startsWith(s, s_http)
        /\ last > n
        /\ \A i \in (n + 1)..last : s[i] \notin ForbiddenHostChars

\* server.js:762-803 for one candidate: what it becomes, and whether the
\* loop takes it
Candidate(url) ==
    LET trimmed == trim(url)
        clean == CleanUp(trimmed)
        full == EnsureProtocol(clean)
    IN  IF url = s_empty \/ trimmed \in {s_empty, s_null, s_undefined} \/ Len(clean) < 5
        THEN [taken |-> FALSE, url |-> s_empty]
        ELSE [taken |-> IsValidUrl(full), url |-> full]

\* server.js:761-804: the first candidate from k on that validates
RECURSIVE FirstValid(_, _)
FirstValid(sources, k) ==
    IF k > Len(sources) THEN s_empty
    ELSE IF Candidate(sources[k]).taken THEN Candidate(sources[k]).url
    ELSE FirstValid(sources, k + 1)

\* server.js:726-804: siteUrl of the row
SiteUrl(task) == FirstValid(allUrlSources(task), 1)

\* the values a URL field of an issue may hold
UrlFieldValues ==
    { <<"h","t","t","p","s",":","/","/","b",".","i","o">>,
      <<"a","<","b",".","c","d">>,
      <<"n","u","l","l">>,
      <<" "," ">>,
      <<"w",".","i","o","/","p">>,
      <<>> }

\* the descriptions an issue may carry
UrlDescriptions ==
    { <<"s","e","e"," ","h","t","t","p","s",":","/","/","a",".","c","o"," ","n","o","w">>,
      <<"s","e","e"," ","h","t","t","p","s",":","/","/","a",".","c","o",".">>,
      <<"a","t"," ","h","t","t","p","s",":","/","/","a",".","c","o",","," ","o","k">>,
      <<"(","h","t","t","p","s",":","/","/","a",".","c","o",")">>,
      <<"h","t","t","p","s",":","/","/","a",".","c","o",".",".",".">>,
      <<"n","o"," ","l","i","n","k">>,
      <<"w","w","w",".","a",".","c","o","/","p"," ","o","r"," ","h","t","t","p","s",":","/","/","c",".","d","e">>,
      <<"g","o"," ","h","t","t","p","s",":","/","/","a","<","b"," ","t","h","e","n"," ","h","t","t","p","s",":","/","/","c",".","d","e">> }

\* the issues handed to the row mapping: any of the URL fields, with or
\* without a description
UrlTasks ==
    LET direct == UNION { [D -> UrlFieldValues] :
                            D \in SUBSET { possibleUrlFields[k] : k \in 1..Len(possibleUrlFields) } }
    IN  direct \cup
        { [k \in DOMAIN t \cup {"description"} |->
              IF k = "description" THEN dsc ELSE t[k]] :
            t \in direct, dsc \in UrlDescriptions }

InitUrl ==
    /\ urlTask = [id |-> 1]
    /\ siteUrl = [mapped |-> FALSE, value |-> s_empty]

\* server.js:695, 726-804: the row of the issue is mapped
MapSiteUrl ==
    /\ ~siteUrl.mapped
    /\ siteUrl' = [mapped |-> TRUE, value |-> SiteUrl(urlTask)]
    /\ UNCHANGED urlTask
    /\ UNCHANGED notUrl

NextUrl == MapSiteUrl

\* the state before any request is served
Init ==
    /\ InitExport
    /\ InitUpload
    /\ InitLabel
    /\ InitCsv
    /\ InitFilter
    /\ InitReport
    /\ InitBatch
    /\ InitPaging
    /\ InitEnv
    /\ InitUrl

\* any issue may be handed to the row mapping
LabelInit ==
    /\ InitExport
    /\ InitUpload
    /\ InitCsv
    /\ InitFilter
    /\ InitReport
    /\ InitBatch
    /\ InitPaging
    /\ InitEnv
    /\ InitUrl
    /\ exportedTask \in ExportedTasks
    /\ exportedPriority = [type |-> "unset"]

\* any string may be handed to escapeCsv
CsvInit ==
    /\ InitExport
    /\ InitUpload
    /\ InitLabel
    /\ InitFilter
    /\ InitReport
    /\ InitBatch
    /\ InitPaging
    /\ InitEnv
    /\ InitUrl
    /\ csvValue \in CsvValues
    /\ csvCell = [type |-> "unset"]

\* any issue and any Filter Selection
FilterInit ==
    /\ InitExport
    /\ InitUpload
    /\ InitLabel
    /\ InitCsv
    /\ InitReport
    /\ InitBatch
    /\ InitPaging
    /\ InitEnv
    /\ InitUrl
    /\ cmpTask \in ComparedTasks
    /\ cmpFilters \in FilterSelections
    /\ cmpOutcome = [type |-> "unset"]

\* any list of issues may be handed to fetchDetailedTasks
BatchInit ==
    /\ InitExport
    /\ InitUpload
    /\ InitLabel
    /\ InitCsv
    /\ InitFilter
    /\ InitReport
    /\ InitPaging
    /\ InitEnv
    /\ InitUrl
    /\ bpc = "idle"
    /\ batchTasks \in { BatchInput(n) : n \in 0..MaxBatchTasks }
    /\ batchStart = 1
    /\ batchPromises = <<>>
    /\ batchDetailed = <<>>

\* any of the three loops, on a project of any size
PagingInit ==
    /\ InitExport
    /\ InitUpload
    /\ InitLabel
    /\ InitCsv
    /\ InitFilter
    /\ InitReport
    /\ InitBatch
    /\ InitEnv
    /\ InitUrl
    /\ pgc = "idle"
    /\ pgLoop \in Loops
    /\ pgProject \in 0..MaxProject
    /\ pgPage = 1
    /\ pgRequests = 0
    /\ pgLengths = <<>>

\* any issue may be handed to the mapping
EnvInit ==
    /\ InitExport
    /\ InitUpload
    /\ InitLabel
    /\ InitCsv
    /\ InitFilter
    /\ InitReport
    /\ InitBatch
    /\ InitPaging
    /\ InitUrl
    /\ envTask \in EnvTasks
    /\ envRow = NoEnvRow

\* any issue may be handed to the mapping
UrlInit ==
    /\ InitExport
    /\ InitUpload
    /\ InitLabel
    /\ InitCsv
    /\ InitFilter
    /\ InitReport
    /\ InitBatch
    /\ InitPaging
    /\ InitEnv
    /\ urlTask \in UrlTasks
    /\ siteUrl = [mapped |-> FALSE, value |-> s_empty]

Spec == Init /\ [][Next]_vars

\* the upload route alone
SpecUpload == Init /\ [][NextUpload]_vars

\* the priority label of an exported row alone
SpecLabel == LabelInit /\ [][NextLabel]_vars

\* escapeCsv alone
SpecCsv == CsvInit /\ [][NextCsv]_vars

\* the two filters side by side
SpecFilter == FilterInit /\ [][NextFilter]_vars

\* the HTML report route, beside another request in flight
SpecReport == Init /\ [][NextReport]_vars

\* fetchDetailedTasks alone
SpecBatch == BatchInit /\ [][NextBatches]_vars

\* the pagination loops alone
SpecPaging == PagingInit /\ [][NextPaging]_vars

\* the same, with every request returning and every delay ending
FairSpecPaging == PagingInit /\ [][NextPaging]_vars /\ WF_vars(NextPaging)

\* the mapping of the environment columns alone
SpecEnv == EnvInit /\ [][NextEnv]_vars

\* the mapping of the Site URL column alone
SpecUrl == UrlInit /\ [][NextUrl]_vars

(***************************************************************************)
(* Properties                                                              *)
(***************************************************************************)
\* the filter and deduplicate stages have just run: every detail fetch has
\* been started and none has settled
Filtered == pc = "details" /\ \A i \in 1..Len(promises) : promises[i].state = "pending"
\* the continuation of Promise.all has run
Rendered == pc = "done" /\ res.kind \in {"noTasks", "debug", "csv"}

IsListCall(c) == c.kind = "list"
ListCalls == SelectSeq(apiCalls, IsListCall)

\* C1: if a page request of the page-fetch stage fails, the request ends with
\* an error response and nothing of the later stages happens: no filtering, no
\* detail fetch, no CSV, whatever pages were fetched before.
C1_FetchFailureIsTerminal ==
    \A k \in 1..Len(pages) :
        pages[k].kind = "error" =>
            /\ k = Len(pages)
            /\ pc = "done"
            /\ res.status >= 400 /\ res.errorField /\ res.kind # "csv"
            /\ res.rows = <<>> /\ csvData = <<>>
            /\ promises = <<>> /\ detailedTasks = <<>>

C1_Witness ==
    /\ pc = "done"
    /\ Len(pages) >= 2
    /\ pages[1].kind = "tasks" /\ Len(pages[1].items) > 0
    /\ pages[Len(pages)].kind = "error"

ReturnedFull(p) == p.kind = "tasks" /\ Len(p.items) + p.fill = 100

RECURSIVE ConcatItems(_, _)
ConcatItems(ps, k) ==
    IF k = 0 THEN <<>>
    ELSE ConcatItems(ps, k - 1) \o (IF ps[k].kind = "tasks" THEN ps[k].items ELSE <<>>)

RECURSIVE SumFill(_, _)
SumFill(ps, k) ==
    IF k = 0 THEN 0
    ELSE SumFill(ps, k - 1) + (IF ps[k].kind = "tasks" THEN ps[k].fill ELSE 0)

\* C2: the list requests are page 1, 2, 3, ... with page size 100; page k+1 is
\* requested exactly when page k returned 100 issues; the accumulated list is
\* the concatenation of the returned pages in page order.
C2_Pagination ==
    /\ \A k \in 1..Len(ListCalls) :
           ListCalls[k] = [kind |-> "list", page |-> k, per_page |-> 100]
    /\ \A k \in 1..Len(pages) : (Len(ListCalls) > k) <=> ReturnedFull(pages[k])
    /\ Len(pages) <= Len(ListCalls)
    /\ tasks.items = ConcatItems(pages, Len(pages))
    /\ tasks.fill = SumFill(pages, Len(pages))

C2_Witness ==
    /\ pc = "details"
    /\ Len(pages) = 2
    /\ ReturnedFull(pages[1]) /\ Len(pages[1].items) > 0
    /\ pages[2].kind = "tasks" /\ Len(pages[2].items) > 0

\* the request of the claim: no project identifier, or no Filter Selection, or
\* a Filter Selection with no bucket enabled
NoBucketEnabled(r) ==
    /\ r.filters.type = "object"
    /\ ~r.filters.feedback /\ ~r.filters.taskBoard /\ ~r.filters.archive

RequestRejectable(r) ==
    \/ ~r.hasBody
    \/ r.projectId.type = "undefined"
    \/ r.projectId.chars = ""
    \/ r.filters.type = "undefined"
    \/ NoBucketEnabled(r)

\* C3: a request without project identifier or without an enabled bucket is
\* answered 400 and no request is issued to the tracker for it.
C3_ValidationRejects ==
    (pc # "idle" /\ RequestRejectable(req)) =>
        /\ pc = "done"
        /\ res.status = 400
        /\ apiCalls = <<>>

C3_Witness ==
    /\ pc = "done"
    /\ req.hasBody
    /\ req.projectId = [type |-> "string", chars |-> "P1"]
    /\ NoBucketEnabled(req)
    /\ res.status = 400

c_backlog == <<"b","a","c","k","l","o","g">>
c_qa_team == <<"q","a"," ","t","e","a","m">>
c_in_progress == <<"i","n"," ","p","r","o","g","r","e","s","s">>
c_done == <<"d","o","n","e">>
c_in_progress_dash == <<"i","n","-","p","r","o","g","r","e","s","s">>
c_suggestion == <<"s","u","g","g","e","s","t","i","o","n">>
ClaimTaskBoardSet == { c_backlog, c_qa_team, c_in_progress, c_done,
                       c_in_progress_dash, c_suggestion }

ClaimStatus(t) == IF Has(t, "status") THEN t.status ELSE <<>>
ClaimFeedback(t) == toLowerCase(ClaimStatus(t)) = s_feedback
ClaimTaskBoard(t) == toLowerCase(ClaimStatus(t)) \in ClaimTaskBoardSet
ClaimTaskBoardTrimmed(t) == toLowerCase(trim(ClaimStatus(t))) \in ClaimTaskBoardSet
ClaimArchive(t) ==
    \/ includes(toLowerCase(ClaimStatus(t)), s_archive)
    \/ includes(toLowerCase(ClaimStatus(t)), s_closed)
    \/ (Has(t, "status_id") /\ t.status_id = 5)

InSeq(x, q) == \E i \in 1..Len(q) : q[i] = x

\* C4 as stated: an issue is retained iff it matches an enabled bucket, the
\* taskBoard bucket comparing the status itself, ignoring case only.
C4_Original ==
    Filtered =>
        \A i \in 1..Len(tasks.items) :
            LET t == tasks.items[i]
            IN  InSeq(t, filteredTasks) <=>
                    \/ (req.filters.feedback /\ ClaimFeedback(t))
                    \/ (req.filters.taskBoard /\ ClaimTaskBoard(t))
                    \/ (req.filters.archive /\ ClaimArchive(t))

ArchiveOnly == [type |-> "object", feedback |-> FALSE, taskBoard |-> FALSE,
                archive |-> TRUE]

\* C4 amended: an issue is retained iff it matches an enabled bucket, the
\* taskBoard bucket comparing the status with surrounding whitespace trimmed;
\* with only archive enabled, of a 'Closed' and a 'Backlog' issue exactly the
\* closed one is retained.
C4_Amended ==
    Filtered =>
        /\ \A i \in 1..Len(tasks.items) :
               LET t == tasks.items[i]
                   matches == \/ (req.filters.feedback /\ ClaimFeedback(t))
                              \/ (req.filters.taskBoard /\ ClaimTaskBoardTrimmed(t))
                              \/ (req.filters.archive /\ ClaimArchive(t))
               IN  /\ InSeq(t, filteredTasks) <=> matches
                   /\ InSeq(t, uniqueTasks) <=> matches
        /\ \A j \in 1..Len(filteredTasks) : InSeq(filteredTasks[j], tasks.items)
        /\ (/\ req.filters = ArchiveOnly
            /\ Len(tasks.items) = 2
            /\ tasks.items[1].status = st_Closed
            /\ tasks.items[2].status = st_Backlog)
           => (Len(uniqueTasks) = 1 /\ uniqueTasks[1].status = st_Closed)

C4_Witness ==
    /\ pc = "details"
    /\ req.filters = ArchiveOnly
    /\ Len(tasks.items) = 2
    /\ tasks.items[1].status = st_Closed
    /\ tasks.items[2].status = st_Backlog
    /\ Len(uniqueTasks) = 1

FirstPos(q, id) == CHOOSE i \in 1..Len(q) :
                       /\ q[i].id = id
                       /\ \A j \in 1..(i-1) : q[j].id # id

ClaimConcat(ts, filters) ==
    (IF filters.feedback THEN SelectSeq(ts, ClaimFeedback) ELSE <<>>)
    \o (IF filters.taskBoard THEN SelectSeq(ts, ClaimTaskBoardTrimmed) ELSE <<>>)
    \o (IF filters.archive THEN SelectSeq(ts, ClaimArchive) ELSE <<>>)

\* C5: after deduplication no two issues have the same identifier, and every
\* issue of the concatenated bucket results (feedback, taskBoard, archive,
\* each in fetched order) is kept once, at its first occurrence.
C5_Dedup ==
    Filtered =>
        /\ filteredTasks = ClaimConcat(tasks.items, req.filters)
        /\ \A i, j \in 1..Len(uniqueTasks) :
               i # j => uniqueTasks[i].id # uniqueTasks[j].id
        /\ { uniqueTasks[i].id : i \in 1..Len(uniqueTasks) }
             = { filteredTasks[i].id : i \in 1..Len(filteredTasks) }
        /\ \A i \in 1..Len(uniqueTasks) :
               uniqueTasks[i] = filteredTasks[FirstPos(filteredTasks, uniqueTasks[i].id)]
        /\ \A i, j \in 1..Len(uniqueTasks) :
               i < j => FirstPos(filteredTasks, uniqueTasks[i].id)
                          < FirstPos(filteredTasks, uniqueTasks[j].id)

\* an issue matched two buckets, and the deduplicated order is not the
\* fetched order
C5_Witness ==
    /\ pc = "details"
    /\ Len(filteredTasks) > Len(uniqueTasks)
    /\ Len(uniqueTasks) >= 2
    /\ \E i, j \in 1..Len(uniqueTasks) :
           /\ i < j
           /\ FirstPos(tasks.items, uniqueTasks[i].id)
                > FirstPos(tasks.items, uniqueTasks[j].id)

\* C6: while detail fetches are pending nothing is rendered; rendering happens
\* only when every detail fetch has settled; the enriched list has the length
\* and the issue order of the deduplicated list, whatever the order in which
\* the fetches completed.
C6_EnrichThenRender ==
    /\ pc = "details" => (Len(promises) = Len(uniqueTasks) /\ res = NoResponse
                          /\ detailedTasks = <<>>)
    /\ Rendered =>
           /\ \A i \in 1..Len(promises) :
                  /\ promises[i].state = "fulfilled"
                  /\ detailResponses[i].kind # "none"
           /\ Len(detailedTasks) = Len(uniqueTasks)
           /\ \A i \in 1..Len(uniqueTasks) : detailedTasks[i].id = uniqueTasks[i].id

\* a later issue's detail fetch has completed before an earlier one's
C6_Witness ==
    /\ pc = "details"
    /\ Len(promises) >= 2
    /\ promises[1].state = "pending"
    /\ promises[Len(promises)].state = "fulfilled"

\* C7: the enriched record is the list-stage object overlaid with the detail
\* response, the detail value winning every colliding key; after a failed
\* detail fetch it is the list-stage object unchanged, the request is still
\* answered with a report, and the report has the issue's row unless the
\* mapping of that record fails.
C7_Overlay ==
    Rendered =>
        \A i \in 1..Len(uniqueTasks) :
            LET t == uniqueTasks[i]
                e == detailedTasks[i]
                r == detailResponses[i]
            IN  /\ r.kind = "ok" =>
                       /\ DOMAIN e = (DOMAIN t) \cup (DOMAIN r.detail)
                       /\ \A k \in DOMAIN r.detail : e[k] = r.detail[k]
                       /\ \A k \in (DOMAIN t) \ (DOMAIN r.detail) : e[k] = t[k]
                /\ r.kind = "error" =>
                       /\ e = t
                       /\ res.kind \in {"debug", "csv"} /\ res.status = 200
                       /\ (res.kind = "csv" /\ ~MapThrows(t)) =>
                              \E k \in 1..Len(res.rows) :
                                  /\ res.rows[k].BugID = i
                                  /\ res.rows[k].Bug_Type = BugType(t)

C7_Witness ==
    /\ res.kind = "csv"
    /\ \E i \in 1..Len(uniqueTasks) : detailResponses[i].kind = "error"
    /\ \E j \in 1..Len(uniqueTasks) :
           /\ detailResponses[j].kind = "ok"
           /\ Has(detailResponses[j].detail, "status")
           /\ Has(uniqueTasks[j], "status")
           /\ detailResponses[j].detail.status # uniqueTasks[j].status

\* C8 as stated: with zero issues left the answer is a "no matching issues"
\* result that is not an error, and never a CSV.
C8_Original ==
    (Rendered /\ Len(detailedTasks) = 0) =>
        /\ res.kind = "noTasks"
        /\ res.status < 400
        /\ ~res.errorField

\* C8 amended: with zero issues left the answer is the 'No tasks found'
\* response, a 404 whose body carries an error field, and never a CSV.
C8_NoTasksIs404 ==
    (Rendered /\ Len(detailedTasks) = 0) =>
        /\ res.kind = "noTasks"
        /\ res.status = 404
        /\ res.errorField
        /\ res.rows = <<>> /\ csvData = <<>>

\* issues were fetched and none matched the enabled buckets
C8_Witness ==
    /\ Rendered
    /\ Len(tasks.items) > 0
    /\ Len(detailedTasks) = 0
    /\ res.kind = "noTasks"

\* C9: in every CSV the BugID values of the data rows are 1, 2, ..., N in row
\* order, N the number of data rows.
C9_SequentialBugIds ==
    res.kind = "csv" => \A k \in 1..Len(res.rows) : res.rows[k].BugID = k

\* the indices from i on of the enriched issues whose mapping does not throw
RECURSIVE Survivors(_, _)
Survivors(detailed, i) ==
    IF i > Len(detailed) THEN <<>>
    ELSE (IF MapThrows(detailed[i]) THEN <<>> ELSE <<i>>) \o Survivors(detailed, i + 1)

\* C10: a record whose mapping fails is dropped alone: the CSV is still
\* produced and its rows are those of the other enriched issues, in their
\* original order.
C10_DropOnlyFailed ==
    /\ (Rendered /\ Len(detailedTasks) > 0 /\ res.kind # "debug") =>
           (res.kind = "csv" /\ res.status = 200)
    /\ res.kind = "csv" =>
           LET S == Survivors(detailedTasks, 1)
           IN  /\ Len(res.rows) = Len(S)
               /\ \A k \in 1..Len(S) :
                      /\ res.rows[k].BugID = S[k]
                      /\ res.rows[k].Bug_Type = BugType(detailedTasks[S[k]])
                      /\ res.rows[k].Screenshot_URL = Screenshot(detailedTasks[S[k]])

\* the middle one of three enriched issues fails to map
C10_Witness ==
    /\ res.kind = "csv"
    /\ Len(detailedTasks) = 3
    /\ MapThrows(detailedTasks[2])
    /\ Len(res.rows) = 2

(***************************************************************************)
(* Properties of the upload route                                          *)
(***************************************************************************)
\* the handler has parsed the file and left the loop over its rows
Imported == upc = "done" /\ upRes.status = 200

CallsOfRow(k, kind) ==
    { j \in 1..Len(trackerCalls) :
        trackerCalls[j].row = k /\ trackerCalls[j].kind = kind }

\* C11: the rows of an upload are processed one at a time, in input order: a
\* call is issued only when every earlier call has settled, the calls are
\* ordered by row with a row's create before its priority update, and the
\* result list has one entry per row handled so far, in input order (one per
\* parsed row when the response is sent).
C11_OneRowAtATime ==
    /\ \A j \in 1..(Len(trackerCalls) - 1) : trackerCalls[j].outcome # "pending"
    /\ \A i, j \in 1..Len(trackerCalls) :
           i < j => /\ trackerCalls[i].row <= trackerCalls[j].row
                    /\ trackerCalls[i].row = trackerCalls[j].row =>
                           /\ j = i + 1
                           /\ trackerCalls[i].kind = "create"
                           /\ trackerCalls[j].kind = "update"
    /\ upc \in {"creating", "updating"} =>
           /\ Len(results) = bugIndex - 1
           /\ trackerCalls[Len(trackerCalls)].row = bugIndex
    /\ Len(results) <= Len(bugs)
    /\ \A k \in 1..Len(results) : results[k].id = bugs[k].id
    /\ Imported => /\ Len(results) = Len(bugs)
                   /\ upRes.body.results = results

C11_Witness ==
    /\ Imported
    /\ Len(bugs) = 2
    /\ Len(trackerCalls) = 4

\* C12: a failed create call gives its row, and no other row, an error result
\* with the row's id and the error's message; the rows after it are still
\* attempted, the successes before it are kept, and the request answers
\* success with total the number of parsed rows and as many results.
C12_RowErrorIsLocal ==
    /\ \A j \in 1..Len(trackerCalls) :
           LET call == trackerCalls[j]
           IN  (call.kind = "create" /\ call.outcome = "failed") =>
                   /\ call.row <= Len(results)
                   /\ results[call.row].id = bugs[call.row].id
                   /\ results[call.row].status = "error"
                   /\ results[call.row].error \in { f.message : f \in CreateFailures }
    /\ \A k \in 1..Len(results) :
           (\E j \in CallsOfRow(k, "create") : trackerCalls[j].outcome = "ok")
               => results[k].status = "success"
    /\ (upc = "done" /\ trackerCalls # <<>>) =>
           /\ upRes.status = 200
           /\ upRes.body.success
           /\ upRes.body.total = Len(bugs)
           /\ Len(upRes.body.results) = Len(bugs)
           /\ \A k \in 1..Len(bugs) :
                  ~BugDataThrows(bugs[k]) => CallsOfRow(k, "create") # {}

C12_Witness ==
    /\ Imported
    /\ Len(bugs) = 2
    /\ results[1].status = "error"
    /\ results[2].status = "success"
    /\ \E j \in CallsOfRow(1, "create") : trackerCalls[j].outcome = "failed"

\* C13: once the create call of a row has succeeded, a priority update is
\* issued for the row if and only if the priority identifier sent with the
\* create call is not 3.
C13_UpdateUnlessNormal ==
    \A j \in 1..Len(trackerCalls) :
        LET call == trackerCalls[j]
        IN  (call.kind = "create" /\ call.outcome = "ok") =>
                (CallsOfRow(call.row, "update") # {}
                    <=> ~(Has(call.task, "priority_id") /\ call.task.priority_id = 3))

\* C14: when the create call of a row succeeds and its priority update fails,
\* the row is reported as a success, with the identifier and the URL the
\* tracker gave the created issue, and the loop goes on to the next row.
C14_UpdateFailureIgnored ==
    \A j \in 1..Len(trackerCalls) :
        LET call == trackerCalls[j]
        IN  (call.kind = "update" /\ call.outcome = "failed") =>
                /\ call.row <= Len(results)
                /\ results[call.row] =
                       [id |-> bugs[call.row].id, status |-> "success",
                        bugherdId |-> CreatedTask(call.row).id,
                        url |-> CreatedTask(call.row).url]
                /\ bugIndex > call.row
                /\ (call.row < Len(bugs) /\ ~BugDataThrows(bugs[call.row + 1]))
                       => CallsOfRow(call.row + 1, "create") # {}
                /\ upc = "done" => Imported /\ Len(results) = Len(bugs)

C14_Witness ==
    /\ Imported
    /\ Len(bugs) = 2
    /\ \E j \in CallsOfRow(1, "update") : trackerCalls[j].outcome = "failed"
    /\ CallsOfRow(2, "create") # {}

\* the file of two rows with the priorities 'critical' and 'not set'
C15_Scenario ==
    /\ Len(bugs) = 2
    /\ Has(bugs[1], "priority") /\ bugs[1].priority = str(s_critical)
    /\ Has(bugs[2], "priority") /\ bugs[2].priority = str(s_not_set)

C16_FileDeleted ==
    (upc = "done" /\ Has(upReq, "file")) => ~fileOnDisk

\* C17: an upload whose file has an extension other than .csv, .xlsx and .xls
\* is answered with a client error (4xx), and no create call is issued.
C17_UnsupportedIsClientError ==
    (/\ upc = "done"
     /\ Has(upReq, "file")
     /\ ~ProjectIdMissing(upReq.body)
     /\ FileExt \notin {s_dot_csv, s_dot_xlsx, s_dot_xls})
    => /\ upRes.status \in 400..499
       /\ trackerCalls = <<>>

\* the table of C18
C18_Table ==
    (0 :> s_not_set) @@ (1 :> s_critical) @@ (2 :> s_important) @@
    (3 :> s_normal) @@ (4 :> s_minor)

\* C18: the priority label of an exported row is the table entry of the
\* issue's priority identifier when that is one of 0..4; otherwise it is the
\* issue's free-text priority if it has one, and 'normal' if it has none.
C18_PriorityLabel ==
    exportedPriority.type = "string" =>
        IF /\ Has(exportedTask, "priority_id")
           /\ exportedTask.priority_id.type = "number"
           /\ exportedTask.priority_id.value \in 0..4
        THEN exportedPriority.chars = C18_Table[exportedTask.priority_id.value]
        ELSE IF Has(exportedTask, "priority") /\ exportedTask.priority.type = "string"
        THEN exportedPriority.chars = trim(exportedTask.priority.chars)
        ELSE exportedPriority.chars = s_normal

\* the table of C19: the identifier of a lower-cased priority name
C19_Id(name) ==
    CASE name = s_critical -> 1
      [] name = s_important -> 2
      [] name = s_minor -> 4
      [] name = s_not_set -> 0
      [] OTHER -> 3

\* the label of a lower-cased priority name
C19_Label(name) ==
    IF name \in {s_critical, s_important, s_minor, s_not_set} THEN name ELSE s_normal

\* C19: the create call of a row carries the label and the identifier of the
\* table entry of the row's priority name ('not set' when the row has none),
\* compared without regard to case; a name outside the table counts as normal.
C19_PayloadMatchesTable ==
    \A j \in 1..Len(trackerCalls) :
        LET call == trackerCalls[j]
            name == toLowerCase(PriorityName(bugs[call.row]).chars)
        IN  call.kind = "create" =>
                [f \in DOMAIN call.task \ {"status"} |-> call.task[f]] =
                    [priority |-> C19_Label(name), priority_id |-> C19_Id(name)]

\* C20: when the tracker answers a request of the export with 401, the
\* caller receives a 401 response.
C20_UnauthorizedIsMirrored ==
    \A k \in 1..Len(pages) :
        (/\ pages[k].kind = "error"
         /\ pages[k].failure.kind = "http"
         /\ pages[k].failure.status = 401
         /\ pc = "done")
        => res.status = 401

(***************************************************************************)
(* Properties of escapeCsv                                                 *)
(***************************************************************************)
\* "" collapses to "
RECURSIVE C21_Collapse(_)
C21_Collapse(s) ==
    IF s = <<>> THEN <<>>
    ELSE IF Len(s) >= 2 /\ s[1] = "\"" /\ s[2] = "\""
    THEN <<"\"">> \o C21_Collapse(SubSeq(s, 3, Len(s)))
    ELSE <<Head(s)>> \o C21_Collapse(Tail(s))

\* standard CSV unescaping of a cell: a cell in quotes loses them, and its
\* doubled quotes collapse
C21_Unescape(cell) ==
    IF Len(cell) >= 2 /\ cell[1] = "\"" /\ cell[Len(cell)] = "\""
    THEN C21_Collapse(SubSeq(cell, 2, Len(cell) - 1))
    ELSE cell

\* C21: unescaping escapeCsv(value) gives back value, for every string value;
\* the cell is wrapped in quotes exactly when the value contains a comma, a
\* double quote or a newline.
C21_RoundTrip ==
    csvCell.type = "string" =>
        /\ C21_Unescape(csvCell.chars) = csvValue
        /\ (Len(csvCell.chars) >= 2 /\ csvCell.chars[1] = "\""
                /\ csvCell.chars[Len(csvCell.chars)] = "\"")
           <=> (\E i \in 1..Len(csvValue) : csvValue[i] \in {",", "\"", "\n"})

\* a value with a comma, a quote and a newline has been escaped
C21_Witness ==
    /\ csvCell.type = "string"
    /\ \A c \in {",", "\"", "\n"} : \E i \in 1..Len(csvValue) : csvValue[i] = c

(***************************************************************************)
(* Properties of the two filters                                           *)
(***************************************************************************)
\* C23: for the same issue and the same Filter Selection the HTML report and
\* the CSV export decide alike: both keep the issue, both drop it, or both
\* reject the request (when no bucket is enabled).
C23_SameRetention ==
    cmpOutcome.type = "done" => cmpOutcome.export = cmpOutcome.report

(***************************************************************************)
(* Properties of the HTML report route                                     *)
(***************************************************************************)
InLog(e) == \E i \in 1..Len(reportLog) : reportLog[i] = e

\* C22: when the project fetch or a page fetch of a report request has
\* failed, the request ends with an error response: never with a report
\* document, and never without a response.
C22_FetchFailureIsTerminal ==
    (/\ InLog("project failed") \/ InLog("verify failed") \/ InLog("page failed")
     /\ rpc \in {"done", "exited"})
    => /\ reportRes.status >= 400
       /\ reportRes.kind # "html"

\* C27: no failure of a request ends the server process.
C27_ProcessSurvives == processAlive

(***************************************************************************)
(* Properties of fetchDetailedTasks                                        *)
(***************************************************************************)
InFlight == { j \in 1..Len(batchPromises) : batchPromises[j].state = "pending" }
Started == { j \in 1..Len(batchPromises) : batchPromises[j].state # "idle" }

\* the batch of the issue at position j
C26_BatchOf(j) == (j - 1) \div 5

\* C26: at most 5 detail fetches are in flight; a fetch of a batch is started
\* only when every fetch of the batches before it has settled; and the list
\* returned has the length and the order of the list given, with the
\* list-stage object, unchanged, for each issue whose detail fetch failed.
C26_BatchesOfFive ==
    /\ Cardinality(InFlight) <= 5
    /\ \A i, j \in 1..Len(batchPromises) :
           (C26_BatchOf(i) < C26_BatchOf(j) /\ j \in Started)
               => batchPromises[i].state = "fulfilled"
    /\ bpc = "done" =>
           /\ Len(batchDetailed) = Len(batchTasks)
           /\ \A j \in 1..Len(batchTasks) :
                  /\ batchDetailed[j].id = batchTasks[j].id
                  /\ batchPromises[j].failed => batchDetailed[j] = batchTasks[j]

\* two batches have run, with a failed fetch in each
C26_Witness ==
    /\ bpc = "done"
    /\ Len(batchTasks) = 6
    /\ batchPromises[2].failed
    /\ batchPromises[6].failed
    /\ ~batchPromises[1].failed

(***************************************************************************)
(* Properties of the export's page-fetch stage, continued                  *)
(***************************************************************************)
\* C29: a successful page response without a tasks array ends the pagination
\* without an error: no further page is requested, the accumulated list is
\* the concatenation of the pages before it, that list is filtered and its
\* detail fetches are started, and the request is answered with the report
\* over those issues (the debug summary when the request asks for it) or
\* with the "no tasks" response.
C29_NoArrayEndsPagination ==
    \A k \in 1..Len(pages) :
        pages[k].kind = "noArray" =>
            /\ k = Len(pages)
            /\ Len(ListCalls) = k
            /\ \A j \in 1..(k - 1) : ReturnedFull(pages[j])
            /\ tasks.items = ConcatItems(pages, k - 1)
            /\ tasks.fill = SumFill(pages, k - 1)
            /\ pc \in {"details", "done"}
            /\ filteredTasks = FilterStage(tasks.items, req.filters)
            /\ Len(promises) = Len(uniqueTasks)
            /\ pc = "details" => res = NoResponse
            /\ pc = "done" =>
                   /\ res.kind \in {"csv", "debug", "noTasks"}
                   /\ res.kind = "noTasks" <=> detailedTasks = <<>>
                   /\ res.kind = "csv" => res.rows = CsvRows(CsvData(detailedTasks))
                   /\ \A i \in 1..Len(detailedTasks) :
                          \E j \in 1..Len(tasks.items) :
                              detailedTasks[i].id = tasks.items[j].id

\* a full page, then a page without a tasks array, and a report over the
\* first page
C29_Witness ==
    /\ Len(pages) = 2
    /\ ReturnedFull(pages[1]) /\ Len(pages[1].items) > 0
    /\ pages[2].kind = "noArray"
    /\ pc = "done" /\ res.kind = "csv" /\ Len(res.rows) > 0

\* a page without a tasks array as the first page: the "no tasks" response
C29_WitnessNone ==
    /\ Len(pages) = 1
    /\ pages[1].kind = "noArray"
    /\ pc = "done" /\ res.kind = "noTasks"

(***************************************************************************)
(* Properties of the upload's priority update                              *)
(***************************************************************************)
\* the calls made for row k that the tracker accepted and that carry a status
StatusWrites(k) ==
    { j \in 1..Len(trackerCalls) :
        /\ trackerCalls[j].row = k
        /\ trackerCalls[j].outcome = "ok"
        /\ Has(trackerCalls[j].task, "status") }

\* the status of the issue created for row k: the status of the last call
\* the tracker accepted for it
IssueStatus(k) ==
    LET last == CHOOSE j \in StatusWrites(k) : \A i \in StatusWrites(k) : i <= j
    IN  trackerCalls[last].task.status

\* C28: the priority update of a row carries nothing but the priority, and
\* once the tracker has accepted it the status of the row's issue is still
\* the status of the create call: the row's status, or 'backlog' for a row
\* without one.
C28_UpdateKeepsStatus ==
    \A j \in 1..Len(trackerCalls) :
        LET call == trackerCalls[j]
        IN  (call.kind = "update" /\ call.outcome = "ok") =>
                /\ DOMAIN call.task = {"priority"}
                /\ IssueStatus(call.row) = BugStatus(bugs[call.row])

(***************************************************************************)
(* Properties of the pagination loops                                      *)
(***************************************************************************)
PagingOver == pgc \in {"done", "failed"}

\* the pages returned so far that carry as many issues as the loop asks for
FullPages == { k \in 1..Len(pgLengths) : pgLengths[k] = PageSize(pgLoop) }

\* the pages returned so far that carry an issue
NonEmptyPages == { k \in 1..Len(pgLengths) : pgLengths[k] > 0 }

\* the export and the ReportGenerator loop go on after full pages only, and
\* end at a page shorter than the page size (100 and 50)
C30_StopAtShortPage ==
    pgLoop \in {"export", "report"} =>
        /\ PageSize(pgLoop) = (IF pgLoop = "export" THEN 100 ELSE 50)
        /\ \A k \in 1..(Len(pgLengths) - 1) : k \in FullPages
        /\ pgc = "done" => pgLengths[Len(pgLengths)] < PageSize(pgLoop)
        /\ (pgLengths # <<>> /\ pgLengths[Len(pgLengths)] < PageSize(pgLoop))
               => pgc \in {"details", "done"}

\* the BrandReportGenerator loop goes on after non-empty pages only, and ends
\* at an empty page
C30_StopAtEmptyPage ==
    pgLoop = "brand" =>
        /\ \A k \in 1..(Len(pgLengths) - 1) : k \in NonEmptyPages
        /\ pgc = "done" => pgLengths[Len(pgLengths)] = 0
        /\ (pgLengths # <<>> /\ pgLengths[Len(pgLengths)] = 0) => pgc = "done"

\* C30 as stated: every loop ends; the export and the ReportGenerator loop
\* stop at the first page shorter than 100 and 50, the BrandReportGenerator
\* loop at the first empty page; and each loop issues at most one request
\* more than the number of full pages.
C30_Original ==
    /\ <>PagingOver
    /\ [](/\ C30_StopAtShortPage
          /\ C30_StopAtEmptyPage
          /\ pgRequests <= Cardinality(FullPages) + 1)

\* C30, amended: every loop ends; the export and the ReportGenerator loop
\* stop at the first page shorter than 100 and 50 and issue at most one
\* request more than the number of full pages; the BrandReportGenerator loop
\* stops at the first empty page and issues at most one request more than the
\* number of non-empty pages, which is two more than the number of full
\* pages when the last issues fill a page only in part.
C30_Amended ==
    /\ <>PagingOver
    /\ [](/\ C30_StopAtShortPage
          /\ C30_StopAtEmptyPage
          /\ pgLoop \in {"export", "report"} => pgRequests <= Cardinality(FullPages) + 1
          /\ pgLoop = "brand" =>
                 /\ pgRequests <= Cardinality(NonEmptyPages) + 1
                 /\ pgRequests <= Cardinality(FullPages) + 2)

\* the BrandReportGenerator loop has ended on a project whose last page is
\* neither empty nor full: two requests more than full pages
C30_Witness ==
    /\ pgLoop = "brand"
    /\ pgc = "done"
    /\ pgProject = 120
    /\ pgLengths = <<50, 50, 20, 0>>
    /\ pgRequests = Cardinality(FullPages) + 2

(***************************************************************************)
(* Properties of the environment columns                                   *)
(***************************************************************************)
\* what the issue's own fields give for the four columns
EnvDirect ==
    [os |-> getValueOf(envTask, OsFields, 1),
     browser |-> getValueOf(envTask, BrowserFields, 1),
     browserSize |-> getValueOf(envTask, BrowserSizeFields, 1),
     resolution |-> getValueOf(envTask, ResolutionFields, 1)]

\* what the 'Label: value' lines of the description give for them
EnvParsed ==
    CHOOSE parsed \in
        { [os |-> env.os, browser |-> env.browser,
           browserSize |-> env.browserWindow, resolution |-> env.resolution] :
          env \in {extractEnvFromDescription(getValueDescription(envTask))} } : TRUE

EnvAvailable(column) == EnvDirect[column] # s_empty \/ EnvParsed[column] # s_empty

\* C24: each of OS, Browser, Browser Size and Resolution is the issue's own
\* field when that field is not empty, and the value parsed from the
\* description only when the field is empty; when only one of Resolution and
\* Browser Size is available, the other has the same value.
C24_DirectFieldsFirst ==
    envRow.mapped =>
        /\ \A column \in {"os", "browser", "browserSize", "resolution"} :
               /\ EnvDirect[column] # s_empty => envRow[column] = EnvDirect[column]
               /\ (EnvDirect[column] = s_empty /\ EnvParsed[column] # s_empty)
                      => envRow[column] = EnvParsed[column]
        /\ (EnvAvailable("resolution") # EnvAvailable("browserSize"))
               => envRow.resolution = envRow.browserSize

(***************************************************************************)
(* Properties of the Site URL column                                       *)
(***************************************************************************)
\* the candidates of the issue, in the order in which they are tried
UrlSources == allUrlSources(urlTask)

\* the candidates that validate as a URL
ValidSources == { k \in 1..Len(UrlSources) : Candidate(UrlSources[k]).taken }

\* the issue has no URL field that is not empty
NoDirectUrl ==
    \A k \in 1..Len(possibleUrlFields) :
        Has(urlTask, possibleUrlFields[k]) => urlTask[possibleUrlFields[k]] = s_empty

C25_Punctuation == {".", ",", ";", ":", "!", "?"}

\* s without the punctuation at its end
RECURSIVE C25_TrimPunctuation(_)
C25_TrimPunctuation(s) ==
    IF s # <<>> /\ s[Len(s)] \in C25_Punctuation
    THEN C25_TrimPunctuation(SubSeq(s, 1, Len(s) - 1))
    ELSE s

\* the URLs the description of the issue embeds
C25_Embedded == urlsInDescription(getValueDescription(urlTask))

\* the Site URL is that of the first candidate that validates, in the order
\* fields then description, and empty if none validates
C25_FirstValidWins ==
    siteUrl.mapped =>
        IF ValidSources = {} THEN siteUrl.value = s_empty
        ELSE LET first == CHOOSE k \in ValidSources : \A j \in ValidSources : k <= j
             IN  siteUrl.value = Candidate(UrlSources[first]).url

\* C25: the Site URL is the first candidate that validates as a URL, the
\* fields of the issue being tried before the URLs of its description, and
\* empty if none validates; for an issue without a URL field whose
\* description embeds an https:// token, it is that token without the
\* punctuation at its end.
C25_SiteUrl ==
    /\ C25_FirstValidWins
    /\ (/\ siteUrl.mapped
        /\ NoDirectUrl
        /\ C25_Embedded # <<>>
        /\ startsWith(C25_Embedded[1], s_https)
        /\ IsValidUrl(C25_TrimPunctuation(C25_Embedded[1])))
           => siteUrl.value = C25_TrimPunctuation(C25_Embedded[1])
====
